---- MODULE Spec2Model ----
(***************************************************************************)
(* Verification model of the DEW water-property stack of Reaktoro:         *)
(* density bisection (Zhang & Duan 2005/2009), the EOS selector, the water *)
(* Gibbs model with its pressure-integration engine, and the Born omega    *)
(* model.                                                                  *)
(*                                                                         *)
(* Number representation.  The C++ code computes in IEEE binary64; TLC     *)
(* computes in 32-bit integers.  Every real quantity is therefore held as  *)
(* an integer count of a fixed unit:                                       *)
(*    temperature   T_cK, T_cC   0.01 K, 0.01 degC                         *)
(*    pressure      P_Pa         1 Pa;     P_mbar   0.001 bar              *)
(*    density       rho          1e-8 g/cm3;  D     0.01 kg/m3             *)
(*    molar volume  Vm           1e-9 m3/mol                               *)
(*    energy        G            0.001 J/mol                               *)
(* Products and quotients are evaluated with MulDiv, which never leaves    *)
(* the 32-bit range, and are truncated to the unit.                        *)
(***************************************************************************)
EXTENDS Integers, Sequences, FiniteSets, TLC

VARIABLES den, gib, born, el, psat, solv, ws, tbl, lk, cmp, ev, fx, tz

vars == <<den, gib, born, el, psat, solv, ws, tbl, lk, cmp, ev, fx, tz>>

(***************************************************************************)
(* Arithmetic helpers                                                      *)
(***************************************************************************)

Abs(x) == IF x < 0 THEN -x ELSE x

Max(a, b) == IF a >= b THEN a ELSE b

Min(a, b) == IF a <= b THEN a ELSE b

Sign(x) == IF x < 0 THEN -1 ELSE IF x > 0 THEN 1 ELSE 0

\* <<q, r>> with ra*b = q*c + r and 0 <= r < c, for 0 <= ra < c < 2^30, b >= 0,
\* computed digit by digit of b in the radix 2^30 \div c (at least 2), so that
\* no intermediate exceeds 2^31.
RECURSIVE MulDivQR(_, _, _)
MulDivQR(ra, b, c) ==
    IF b = 0 THEN <<0, 0>>
    ELSE LET radix == Max(2, 1073741824 \div c)
             Digit(qr) ==
                 LET r2 == radix * qr[2]
                     r3 == (r2 % c) + (b % radix) * ra
                 IN  <<radix * qr[1] + (r2 \div c) + (r3 \div c), r3 % c>>
         IN  Digit(MulDivQR(ra, b \div radix, c))

\* a*b/c truncated toward zero (c > 0): the double product/quotient a*b/c.
MulDiv(a, b, c) ==
    Sign(a) * Sign(b)
      * ((Abs(a) \div c) * Abs(b) + MulDivQR(Abs(a) % c, Abs(b), c)[1])

\* x / c truncated toward zero (C++ (int) conversion and integer division).
DivTrunc(x, c) == Sign(x) * (Abs(x) \div c)

\* The loops of the code are run by operators named ...Loop(..., a, passes):
\* `passes` passes of the loop body from the loop state a.  The passes are
\* split in halves, and the state the first half reaches is computed (the
\* test reached = reached) before the second half starts, so that the
\* evaluation nests log2(passes) deep instead of `passes` deep.

(***************************************************************************)
(* Unit conversions                                                        *)
(***************************************************************************)

\* T_C = T_K - 273.15
toCelsius(T_cK) == T_cK - 27315

\* P_bar = P_Pa * 1.0e-5, delivered in millibar.
bar_from_P_Pa(P_Pa) == DivTrunc(P_Pa, 100)

(***************************************************************************)
(* Zhang & Duan (2005): forward model P(rho, T) and the density bisection  *)
(***************************************************************************)

\* rho_min = 1.0e-5 g/cm3
zd05_rho_min == 1000

\* rho_max = 2.5 g/cm3
zd05_rho_max == 250000000

\* for(int iter = 0; iter < 50; ++iter)
zd05_max_iter == 50

\* Spacing of the tabulated densities of zd05_pressure_bar: 0.125 g/cm3.
zd05_cell == zd05_rho_max \div 20

\* zd05_pressure_bar evaluated in closed form (B, C, D, E, f, g, delta of the
\* source) at rho = 1e-5 g/cm3 and rho = k * 0.125 g/cm3, k = 1..20, in
\* millibar, saturated at +-1e9 mbar.  T_C = 100 and 300 degC.
zd05_pressure_nodes(T_cC) ==
    IF T_cC = 10000 THEN
      << 17, 313525, 550686, 419270, -148593, -949593,
         -1508531, -1123721, 1041480, 5821013, 13862316, 25396371,
         39961577, 56081440, 70896048, 79747332, 75718072, 49124661,
         -13036412, -127688335, -316320036 >>
    ELSE
      << 26, 256030, 318234, 175695, -70681, -175073,
         270313, 1836285, 5241734, 11322717, 20985553, 35143912,
         54639842, 80148701, 112067903, 150389440, 194556077, 243301175,
         294472068, 344836930, 389875108 >>

\* Piecewise-linear evaluation of a node table at density rho (rho0 is the
\* density of the first node, the others lie at multiples of cell).
Interpolate(nodes, rho0, cell, rho) ==
    LET i    == Min(rho \div cell, Len(nodes) - 2)
        left == IF i = 0 THEN rho0 ELSE i * cell
    IN  nodes[i + 1] + MulDiv(nodes[i + 2] - nodes[i + 1], rho - left,
                              (i + 1) * cell - left)

\* P_bar = ZD05_R * T_K * rho * delta / M_H2O  [millibar]
zd05_pressure_bar(rho, T_cC) ==
    Interpolate(zd05_pressure_nodes(T_cC), zd05_rho_min, zd05_cell, rho)

(***************************************************************************)
(* Zhang & Duan (2009): forward model and density bisection                *)
(***************************************************************************)

\* minGuess = 1.0e-5 g/cm3
ZD09_minGuess == 1000

\* maxGuess = 7.5 * 2.0 - 5.0 = 10.0 g/cm3
ZD09_maxGuess == 1000000000

\* Spacing of the tabulated densities of calculatePressure_ZD09: 0.25 g/cm3.
ZD09_cell == ZD09_maxGuess \div 40

\* calculatePressure_ZD09 evaluated in closed form at rho = 1e-5 g/cm3 and
\* rho = k * 0.25 g/cm3, k = 1..40, in millibar, saturated at +-1e9 mbar.
ZD09_pressure_nodes(T_cC) ==
    IF T_cC = 10000 THEN
      << 17, -445602, -895296, -3458319, -16911443, -63493578,
         -179923359, -419016878, -850662054, -1000000000, -1000000000, -1000000000,
         -1000000000, -1000000000, -1000000000, -1000000000, -1000000000, -1000000000,
         -1000000000, -1000000000, -1000000000, -1000000000, -1000000000, -1000000000,
         -1000000000, -1000000000, -1000000000, -1000000000, -1000000000, -1000000000,
         -1000000000, -1000000000, -1000000000, -1000000000, -1000000000, -1000000000,
         -1000000000, -1000000000, -1000000000, 1000000000, 1000000000 >>
    ELSE
      << 26, 49580, -170844, 2730, 1370847, 3851719,
         8179120, 17613991, 40196831, 91655826, 198925879, 404276463,
         770048310, 1000000000, 1000000000, 1000000000, 1000000000, 1000000000,
         1000000000, 1000000000, 1000000000, 1000000000, 1000000000, 1000000000,
         1000000000, 1000000000, 1000000000, 1000000000, 1000000000, 1000000000,
         1000000000, 1000000000, 1000000000, 1000000000, 1000000000, 1000000000,
         1000000000, 1000000000, 1000000000, 1000000000, 1000000000 >>

\* return Pm_bar * ZD09_c1  [millibar]
calculatePressure_ZD09(rho, T_cC) ==
    Interpolate(ZD09_pressure_nodes(T_cC), ZD09_minGuess, ZD09_cell, rho)

\* Saturated-liquid density polynomial of DEW (Psat = True branch), g/cm3,
\* evaluated at T_C = 100 and 300 degC.
densityPsatPoly_DEW(T_cC) ==
    IF T_cC = 10000 THEN 95856460 ELSE 71223117

(***************************************************************************)
(* The bisection as a step function.  A run is a record                    *)
(*   eos, T_cC, P_target [mbar], tol [mbar], cap, usePsat  -- the call     *)
(*   pc ("call" | "loop" | "done"), iter, rho, rho_min, rho_max            *)
(*   evals (forward-model evaluations so far), conv (tolerance met)        *)
(***************************************************************************)

\* The forward model of the selected variant.
ForwardPressure(eos, rho, T_cC) ==
    IF eos = "ZhangDuan2005" THEN zd05_pressure_bar(rho, T_cC)
    ELSE calculatePressure_ZD09(rho, T_cC)

\* The run at the entry of the density function.
DensityCall(eos, T_cC, P_target, tol, cap, usePsat) ==
    [eos |-> eos, T_cC |-> T_cC, P_target |-> P_target, tol |-> tol,
     cap |-> cap, usePsat |-> usePsat, pc |-> "call", iter |-> 0,
     rho |-> 0, rho_min |-> 0, rho_max |-> 0, evals |-> 0, conv |-> FALSE]

\* Function entry: the Psat shortcut of ZD09, else the initial bracket with
\* rho = rho_min.
DensityEnter(s) ==
    IF s.eos = "ZhangDuan2009" /\ s.usePsat
    THEN [s EXCEPT !.pc = "done", !.rho = densityPsatPoly_DEW(s.T_cC)]
    ELSE LET lo == IF s.eos = "ZhangDuan2005" THEN zd05_rho_min ELSE ZD09_minGuess
             hi == IF s.eos = "ZhangDuan2005" THEN zd05_rho_max ELSE ZD09_maxGuess
         IN  [s EXCEPT !.pc = "loop", !.rho = lo, !.rho_min = lo, !.rho_max = hi]

\* rho = 0.5 * (rho + bound)
Midpoint(rho, bound) == (rho + bound) \div 2

\* The loop pass with the two directions exchanged (a variant for
\* comparison: a sign error in the test of diff).
DensityIterateSwapped(s) ==
    LET Move(diff) ==
            IF Abs(diff) <= s.tol
            THEN [s EXCEPT !.evals = s.evals + 1, !.pc = "done", !.conv = TRUE]
            ELSE IF diff < 0
            THEN [s EXCEPT !.evals = s.evals + 1, !.iter = s.iter + 1,
                           !.rho_max = s.rho, !.rho = Midpoint(s.rho, s.rho_min)]
            ELSE [s EXCEPT !.evals = s.evals + 1, !.iter = s.iter + 1,
                           !.rho_min = s.rho, !.rho = Midpoint(s.rho, s.rho_max)]
    IN  Move(ForwardPressure(s.eos, s.rho, s.T_cC) - s.P_target)

\* One pass of the loop body: evaluate the forward model at rho, return rho
\* when |diff| <= tol, else move one bracket end to rho and halve.
DensityIterate(s) ==
    LET Move(diff) ==
            IF Abs(diff) <= s.tol
            THEN [s EXCEPT !.evals = s.evals + 1, !.pc = "done", !.conv = TRUE]
            ELSE IF diff > 0
            THEN [s EXCEPT !.evals = s.evals + 1, !.iter = s.iter + 1,
                           !.rho_max = s.rho, !.rho = Midpoint(s.rho, s.rho_min)]
            ELSE [s EXCEPT !.evals = s.evals + 1, !.iter = s.iter + 1,
                           !.rho_min = s.rho, !.rho = Midpoint(s.rho, s.rho_max)]
    IN  Move(ForwardPressure(s.eos, s.rho, s.T_cC) - s.P_target)

\* Loop exit at the iteration cap: the last iterate is returned.
DensityExhaust(s) == [s EXCEPT !.pc = "done"]

\* The step without the loop condition iter < cap (a variant for comparison:
\* with it the iteration count is not bounded by the cap).
DensityNextUncapped(s) ==
    IF s.pc = "call" THEN DensityEnter(s) ELSE DensityIterate(s)

\* One step of the density function.
DensityNext(s) ==
    IF s.pc = "call" THEN DensityEnter(s)
    ELSE IF s.iter < s.cap THEN DensityIterate(s)
    ELSE DensityExhaust(s)

\* A step of the density function, or nothing once it has returned.
DensityStep(s) == IF s.pc = "done" THEN s ELSE DensityNext(s)

\* The loop of the density function: passes of DensityStep.
RECURSIVE DensityLoop(_, _)
DensityLoop(a, passes) ==
    IF passes <= 0 THEN a
    ELSE IF passes = 1 THEN DensityStep(a)
    ELSE LET Rest(reached) ==
                 IF reached = reached
                 THEN DensityLoop(reached, passes - passes \div 2)
                 ELSE reached
         IN  Rest(DensityLoop(a, passes \div 2))

\* The density function run to its return: the entry, at most cap loop
\* passes, and the loop exit.
DensityRun(s) == DensityLoop(s, s.cap + 2)

\* zd05_density_g_cm3(P_bar_target, T_C, error_bar): 50 iterations at most.
zd05_density_g_cm3(P_target, T_cC, error_bar) ==
    DensityRun(DensityCall("ZhangDuan2005", T_cC, P_target, error_bar,
                           zd05_max_iter, FALSE))

\* calculateDensity_ZD09(P_bar, T_C, opts): opts.maxIterations at most.
calculateDensity_ZD09(P_target, T_cC, opts) ==
    DensityRun(DensityCall("ZhangDuan2009", T_cC, P_target,
                           opts.pressureToleranceBar, opts.maxIterations,
                           opts.usePsat))

(***************************************************************************)
(* Specification of the density solver: one call of zd05_density_g_cm3 or  *)
(* calculateDensity_ZD09 per behaviour, one loop pass per step.            *)
(***************************************************************************)

\* Temperatures of the tabulated forward models, 0.01 degC.
Temperatures == {10000, 30000}

\* Target pressures [mbar]: 0 bar, 1000 bar, 5000 bar, and 500 kbar, which no
\* density of either bracket reaches at 300 degC with ZD05.
TargetPressures == {0, 1000000, 5000000, 500000000}

\* Pressure tolerances [mbar]: unreachable, the default 0.01 bar, 100 bar.
PressureTolerances == {0, 10, 100000}

\* Largest opts.maxIterations drawn for ZD09.
MaxIterationsBound == 60

\* WaterZhangDuan2009Options::maxIterations = 50
ZD09_default_maxIterations == 50

\* opts.maxIterations values drawn for ZD09.
MaxIterationsInputs == {0, 3, ZD09_default_maxIterations, MaxIterationsBound}

\* The value of a variable whose component is not exercised.
Idle == [pc |-> "idle"]

\* Every call the density specification starts from.
DensityCalls ==
    { DensityCall("ZhangDuan2005", T, P, tol, zd05_max_iter, FALSE) :
        T \in Temperatures, P \in TargetPressures, tol \in PressureTolerances }
    \cup
    { DensityCall("ZhangDuan2009", T, P, tol, n, u) :
        T \in Temperatures, P \in TargetPressures, tol \in PressureTolerances,
        n \in MaxIterationsInputs, u \in BOOLEAN }

InitDensity == den \in DensityCalls /\ gib = Idle /\ born = Idle /\ el = Idle /\ psat = Idle /\ solv = Idle /\ ws = Idle /\ tbl = Idle /\ lk = Idle /\ cmp = Idle /\ ev = Idle /\ fx = Idle /\ tz = Idle

\* Function entry.
DensityCallStep ==
    /\ den.pc = "call"
    /\ den' = DensityNext(den)
    /\ UNCHANGED <<gib, born, el, psat, solv, ws, tbl, lk, cmp, ev, fx, tz>>

\* One loop pass, or the loop exit at the cap.
DensityLoopStep ==
    /\ den.pc = "loop"
    /\ den' = DensityNext(den)
    /\ UNCHANGED <<gib, born, el, psat, solv, ws, tbl, lk, cmp, ev, fx, tz>>

NextDensity == DensityCallStep \/ DensityLoopStep

SpecDensity == InitDensity /\ [][NextDensity]_vars

(***************************************************************************)
(* Born omega model: waterBornOmegaDEW and waterBornDOmegaDP_DEW.           *)
(*                                                                         *)
(* Units.  With eta = 166027 A cal/mol, omega and wref are held in units   *)
(* of 4.184 * eta / 3082 J/mol (= eta / 3082 cal/mol, about 53.87 cal/mol),*)
(* so that the denominator wref_cal / eta + Z / 3.082 is exactly           *)
(* (wref + 1000 * Z) / 3082 and its sign and zero are decided exactly.     *)
(* Radii and g are in 0.001 A, dgdP in 1e-10 / Pa, domega_dP in            *)
(* 4.184 * eta * 1e-13 J/mol/Pa.                                           *)
(***************************************************************************)

\* x / y truncated toward zero, y # 0 of either sign.
QuoTrunc(x, y) == Sign(x) * Sign(y) * (Abs(x) \div Abs(y))

\* real maxPressureForVariation = 6000.0e5  [Pa]
default_maxPressureForVariation == 600000000

\* The bypass test with the pressure cutoff left out (a variant for
\* comparison).
BypassWithoutCutoff(in) == in.Z = 0 \/ in.isHydrogenLike

\* Z == 0.0 || opt.isHydrogenLike || P > opt.maxPressureForVariation
Bypass(in) ==
    in.Z = 0 \/ in.isHydrogenLike \/ in.P > in.maxPressureForVariation

\* denom = (wref_cal / eta_cal_per_A) + Z / 3.082, times 3082.
BornDenom(in) == in.wref + 1000 * in.Z

\* reref_A = (Z * Z) / denom  [0.001 A]; evaluated only where denom # 0.
BornReref(in) == QuoTrunc(in.Z * in.Z * 3082000, BornDenom(in))

\* re_A = reref_A + abs(Z) * g  [0.001 A]
BornRe(in) == BornReref(in) + Abs(in.Z) * in.g

\* waterBornOmegaDEW.  The result records the returned value, the return
\* statement taken, and which quotients were evaluated on the way.
waterBornOmegaDEW(in) ==
    IF Bypass(in)
    THEN [value |-> in.wref, path |-> "bypass",
          divDenom |-> FALSE, divRadius |-> FALSE]
    ELSE IF BornDenom(in) = 0
    THEN [value |-> in.wref, path |-> "denom",
          divDenom |-> FALSE, divRadius |-> FALSE]
    ELSE IF BornRe(in) <= 0
    THEN [value |-> in.wref, path |-> "radius",
          divDenom |-> TRUE, divRadius |-> FALSE]
    ELSE [value |-> QuoTrunc(3082000 * in.Z * in.Z, BornRe(in))
                      - QuoTrunc(3082000 * in.Z, 3082 + in.g),
          path |-> "formula", divDenom |-> TRUE, divRadius |-> TRUE]

\* term = |Z|^3 / (re_A * re_A) - Z / ((3.082 + g) * (3.082 + g))  [0.001/A^2]
BornTerm(in) ==
    LET re == BornRe(in)
        Z3 == Abs(in.Z) * Abs(in.Z) * Abs(in.Z)
    IN  MulDiv(QuoTrunc(Z3 * 1000000, re), 1000, re)
          - MulDiv(QuoTrunc(in.Z * 1000000, 3082 + in.g), 1000, 3082 + in.g)

\* waterBornDOmegaDP_DEW.
waterBornDOmegaDP_DEW(in) ==
    IF Bypass(in)
    THEN [value |-> 0, path |-> "bypass",
          divDenom |-> FALSE, divRadius |-> FALSE]
    ELSE IF BornDenom(in) = 0
    THEN [value |-> 0, path |-> "denom",
          divDenom |-> FALSE, divRadius |-> FALSE]
    ELSE IF BornRe(in) <= 0
    THEN [value |-> 0, path |-> "radius",
          divDenom |-> TRUE, divRadius |-> FALSE]
    ELSE [value |-> -(BornTerm(in) * in.dgdP),
          path |-> "formula", divDenom |-> TRUE, divRadius |-> TRUE]

\* Charges.
Charges == {-2, -1, 0, 1, 2}

\* Reference Born coefficients wref: a large negative value, an anion value
\* below eta / 3.082, the value 1000 that cancels Z = -1 exactly, and the
\* values of Na+ (0.3306e5 cal/mol) and Cl- (1.4560e5 cal/mol).
ReferenceOmegas == {-200000, 500, 1000, 614, 2703}

\* Pressures [Pa]: 1000 bar, the default cutoff, one Pa above it.
BornPressures == {100000000, 600000000, 600000001}

\* opt.maxPressureForVariation [Pa]: 2000 bar and the default.
PressureCutoffs == {200000000, default_maxPressureForVariation}

\* Values of the solvent function g [0.001 A]: it is 0 for rho >= 1 g/cm3,
\* negative below, and slightly positive where -f outweighs the density
\* term (rho close to 1, P < 1000 bar, 155 <= T_C <= 355).
SolventG == {-500, -100, 0, 20}

\* Values of dg/dP [1e-10 / Pa].
SolventDgdP == {0, 1, 10}

\* Every pair of calls the omega specification starts from.
BornCalls ==
    [Z : Charges, wref : ReferenceOmegas, isHydrogenLike : BOOLEAN,
     P : BornPressures, maxPressureForVariation : PressureCutoffs,
     g : SolventG, dgdP : SolventDgdP]

\* No result yet.
NoResult == [value |-> 0, path |-> "none", divDenom |-> FALSE, divRadius |-> FALSE]

InitOmega ==
    /\ born \in [in : BornCalls, pc : {"call"}, omega : {NoResult},
                 domega : {NoResult}, haveOmega : {FALSE}, haveDomega : {FALSE}]
    /\ den = Idle
    /\ gib = Idle
    /\ el = Idle
    /\ psat = Idle
    /\ solv = Idle
    /\ ws = Idle
    /\ tbl = Idle
    /\ lk = Idle
    /\ cmp = Idle
    /\ ev = Idle
    /\ fx = Idle
    /\ tz = Idle

\* A call of waterBornOmegaDEW.
OmegaStep ==
    /\ born.pc = "call"
    /\ ~born.haveOmega
    /\ born' = [born EXCEPT !.omega = waterBornOmegaDEW(born.in),
                            !.haveOmega = TRUE]
    /\ UNCHANGED <<den, gib, el, psat, solv, ws, tbl, lk, cmp, ev, fx, tz>>

\* A call of waterBornDOmegaDP_DEW.
DOmegaStep ==
    /\ born.pc = "call"
    /\ ~born.haveDomega
    /\ born' = [born EXCEPT !.domega = waterBornDOmegaDP_DEW(born.in),
                            !.haveDomega = TRUE]
    /\ UNCHANGED <<den, gib, el, psat, solv, ws, tbl, lk, cmp, ev, fx, tz>>

NextOmega == OmegaStep \/ DOmegaStep

SpecOmega == InitOmega /\ [][NextOmega]_vars

(***************************************************************************)
(* EOS selector: waterThermoPropsModel, with the DEW Psat override.        *)
(***************************************************************************)

\* Psat(T) of Wagner & Pruss [Pa] at 278.15 K, 373.15 K and 573.15 K.
waterSaturationPressureWagnerPruss(T_cK) ==
    IF T_cK = 27815 THEN 873 ELSE IF T_cK = 37315 THEN 101418 ELSE 8587900

\* isNearPsatWagnerPruss with diff < relTol * Psat.
isNearPsatWagnerPrussStrict(T_cK, P_Pa, relTol) ==
    IF relTol <= 0 THEN FALSE
    ELSE /\ waterSaturationPressureWagnerPruss(T_cK) > 0
         /\ Abs(P_Pa - waterSaturationPressureWagnerPruss(T_cK))
              < MulDiv(relTol, waterSaturationPressureWagnerPruss(T_cK), 1000000)

\* diff <= relTol * Psat, with relTol in parts per million.
isNearPsatWagnerPruss(T_cK, P_Pa, relTol) ==
    IF relTol <= 0 THEN FALSE
    ELSE /\ waterSaturationPressureWagnerPruss(T_cK) > 0
         /\ Abs(P_Pa - waterSaturationPressureWagnerPruss(T_cK))
              <= MulDiv(relTol, waterSaturationPressureWagnerPruss(T_cK), 1000000)

\* The same polynomial as densityPsatPoly_DEW.
dewPsatDensityLiquid_g_cm3_from_T(T_cK) == densityPsatPoly_DEW(toCelsius(T_cK))

\* rho_kg_m3 = rho_g_cm3 * 1000  [0.01 kg/m3]
rho_kg_m3_from_g_cm3(rho) == rho \div 1000

\* waterThermoPropsZhangDuan2005(T, P, densityTolerance) as defined: D, and
\* the tolerance the bisection ran with.
waterThermoPropsZhangDuan2005(T_cK, P_Pa, densityTolerance) ==
    LET Props(run) == [D |-> rho_kg_m3_from_g_cm3(run.rho), tol |-> run.tol]
    IN  Props(zd05_density_g_cm3(bar_from_P_Pa(P_Pa), toCelsius(T_cK),
                                 densityTolerance))

\* waterThermoPropsZhangDuan2009(T, P, opts)
waterThermoPropsZhangDuan2009(T_cK, P_Pa, opts) ==
    LET Props(run) == [D |-> rho_kg_m3_from_g_cm3(run.rho), tol |-> run.tol]
    IN  Props(calculateDensity_ZD09(bar_from_P_Pa(P_Pa), toCelsius(T_cK), opts))

\* maybeApplyDewPsatOverride: near Psat, D is replaced by the polynomial.
maybeApplyDewPsatOverride(T_cK, P_Pa, opt, wt) ==
    IF ~opt.usePsatPolynomials THEN wt
    ELSE IF opt.eosModel \notin {"ZhangDuan2005", "ZhangDuan2009"} THEN wt
    ELSE IF ~isNearPsatWagnerPruss(T_cK, P_Pa, opt.psatRelativeTolerance) THEN wt
    ELSE [wt EXCEPT !.D = rho_kg_m3_from_g_cm3(dewPsatDensityLiquid_g_cm3_from_T(T_cK))]

\* waterThermoPropsModel.  The ZD05 case calls the two-argument
\* waterThermoPropsZhangDuan2005(T_K, P_Pa): no tolerance is passed, the
\* default of that declaration (opt.zd05DefaultTolerance here) applies.  The
\* ZD09 case passes opt.zhangDuan2009Options.  opt.densityTolerance is not
\* read.
waterThermoPropsModel(T_cK, P_Pa, opt) ==
    maybeApplyDewPsatOverride(T_cK, P_Pa, opt,
        IF opt.eosModel = "ZhangDuan2005"
        THEN waterThermoPropsZhangDuan2005(T_cK, P_Pa, opt.zd05DefaultTolerance)
        ELSE waterThermoPropsZhangDuan2009(T_cK, P_Pa, opt.zhangDuan2009Options))

(***************************************************************************)
(* Water Gibbs model: gibbsDewIntegral_J_per_mol and its integrators.      *)
(***************************************************************************)

\* M = 18.01528e-3 kg/mol over 0.01 kg/m3, in 1e-9 m3/mol.
MolarMassScaled == 1801528000

\* One integrand evaluation: Vm = (wt.D > 0.0) ? (M / wt.D) : 0.0, together
\* with the tolerance the density bisection used.
MolarVolume(T_cK, P_Pa, thermoWithTol) ==
    LET Of(wt) == [Vm  |-> IF wt.D > 0 THEN MolarMassScaled \div wt.D ELSE 0,
                   D   |-> wt.D,
                   tol |-> wt.tol]
    IN  Of(waterThermoPropsModel(T_cK, P_Pa, thermoWithTol))

\* GAtOneKb_cal_per_mol(T_C) in 0.001 cal/mol at 100 and 300 degC.
GAtOneKb_cal_per_mol(T_cC) ==
    IF T_cC = 10000 THEN -57656619 ELSE -62557499

\* G_cal * 4.184  [0.001 J/mol from 0.001 cal/mol]
cal_to_J(G_mcal) == MulDiv(G_mcal, 4184, 1000)

\* gibbsDelaneyHelgeson1978_J_per_mol: the 15-coefficient polynomial in T_C
\* and P_bar [0.001 cal/mol], at 100 and 300 degC and at 1.014 bar, 500 bar
\* and 999.999 bar, times 4.184.
gibbsDelaneyHelgeson1978_J_per_mol(T_cK, P_Pa) ==
    cal_to_J(IF T_cK = 37315
             THEN (IF P_Pa = 101400 THEN -57902614
                   ELSE IF P_Pa = 50000000 THEN -57706023
                   ELSE -57510153)
             ELSE (IF P_Pa = 101400 THEN -62649540
                   ELSE IF P_Pa = 50000000 THEN -62438085
                   ELSE -62227477))

\* waterPsatGibbsDEW(T_K) in 0.001 J/mol at 100 and 300 degC.
waterPsatGibbsDEW(T_cK) ==
    cal_to_J(IF T_cK = 37315 THEN -58098163 ELSE -63071134)

\* Largest power of two not above b (b >= 1): the binade of b.
RECURSIVE Binade(_)
Binade(b) == IF b < 2 THEN 1 ELSE 2 * Binade(b \div 2)

\* The double 1.0e-5 exceeds 10^-5 by the relative amount 8.1803e-17, so for
\* a whole number b of bar the product (b * 1e5) * 1.0e-5 rounds to b plus
\* one ulp exactly when b / Binade(b) > 2^-53 / 8.1803e-17 = 1.35718.
UlpExcess(b) ==
    IF (b * 100000 + Binade(b) - 1) \div Binade(b) > 135718 THEN 1 ELSE 0

\* P_bar = P_Pa * 1.0e-5 as the pair of its value in millibar and the number
\* of ulps by which the double exceeds that value.
P_bar_of(P_Pa) ==
    [mbar |-> bar_from_P_Pa(P_Pa),
     ulps |-> IF P_Pa > 0 /\ P_Pa % 100000 = 0
              THEN UlpExcess(P_Pa \div 100000) ELSE 0]

\* The early tests with the baseline returned below 1000 bar as well (a
\* variant for comparison: if (P_bar <= 1000.0) return G1k_cal * 4.184).
gibbsDewEarlyReturnBaseline(T_cK, P_Pa) ==
    IF P_bar_of(P_Pa).mbar < 1000000
         \/ (P_bar_of(P_Pa).mbar = 1000000 /\ P_bar_of(P_Pa).ulps = 0)
    THEN [returns |-> TRUE,
          value |-> cal_to_J(GAtOneKb_cal_per_mol(toCelsius(T_cK)))]
    ELSE [returns |-> FALSE, value |-> 0]

\* The two early tests of gibbsDewIntegral_J_per_mol:
\*   if (P_bar < 1000.0) return 0.0;
\*   if (P_bar == 1000.0) return G1k_cal * 4.184;
gibbsDewEarlyReturn(T_cK, P_Pa) ==
    LET P_bar == P_bar_of(P_Pa)
    IN  IF P_bar.mbar < 1000000
        THEN [returns |-> TRUE, value |-> 0]
        ELSE IF P_bar.mbar = 1000000 /\ P_bar.ulps = 0
        THEN [returns |-> TRUE,
              value |-> cal_to_J(GAtOneKb_cal_per_mol(toCelsius(T_cK)))]
        ELSE [returns |-> FALSE, value |-> 0]

\* thermoWithTol = thermo; thermoWithTol.densityTolerance = opt.densityTolerance
thermoWithTol(opt) ==
    [opt.thermo EXCEPT !.densityTolerance = opt.densityTolerance]

\* An integration result: the integral [0.001 J/mol], the number of integrand
\* evaluations, and the set of tolerances the density bisection used.
NoIntegral == [G_int |-> 0, evals |-> 0, tols |-> {}]

\* Excel mode, loop body: for (Pstep_bar = 1000.0; Pstep_bar <= P_bar + 1e-9;
\*                             Pstep_bar += spacing_bar)
\*   G_int_J += Vm * spacing_Pa, unless wt.D <= 0.
ExcelPass(T_cK, P_mbar, spacing_mbar, thermo, a) ==
    LET Add(e) ==
            [Pstep |-> a.Pstep + spacing_mbar,
             G_int |-> IF e.D <= 0 THEN a.G_int
                       ELSE a.G_int + MulDiv(e.Vm, spacing_mbar * 100, 1000000),
             evals |-> a.evals + 1,
             tols  |-> a.tols \cup {e.tol}]
    IN  IF a.Pstep > P_mbar THEN a
        ELSE Add(MolarVolume(T_cK, a.Pstep * 100, thermo))

\* The Excel-mode loop.
RECURSIVE ExcelLoop(_, _, _, _, _, _)
ExcelLoop(T_cK, P_mbar, spacing_mbar, thermo, a, passes) ==
    IF passes <= 0 THEN a
    ELSE IF passes = 1 THEN ExcelPass(T_cK, P_mbar, spacing_mbar, thermo, a)
    ELSE LET Rest(reached) ==
                 IF reached = reached
                 THEN ExcelLoop(T_cK, P_mbar, spacing_mbar, thermo, reached, passes - passes \div 2)
                 ELSE reached
         IN  Rest(ExcelLoop(T_cK, P_mbar, spacing_mbar, thermo, a, passes \div 2))

\* spacing_bar = std::max(1.0, (P_bar - 1000.0) / 5000.0), and the loop.
excelIntegration(T_cK, P_Pa, thermo) ==
    LET P_mbar    == bar_from_P_Pa(P_Pa)
        spacing   == Max(1000, (P_mbar - 1000000) \div 5000)
        Result(r) == [G_int |-> r.G_int, evals |-> r.evals, tols |-> r.tols]
    IN  Result(ExcelLoop(T_cK, P_mbar, spacing, thermo,
                         [Pstep |-> 1000000, G_int |-> 0, evals |-> 0, tols |-> {}],
                         (P_mbar - 1000000) \div spacing + 1))

\* Trapezoidal loop body: for (i = 1; i <= nsteps; ++i); a point with
\* D <= 0 is skipped without updating Vm_prev.
TrapezoidalPass(T_cK, P_start, dP, nsteps, thermo, a) ==
    LET Add(e) ==
            [i       |-> a.i + 1,
             Vm_prev |-> IF e.D <= 0 THEN a.Vm_prev ELSE e.Vm,
             G_int   |-> IF e.D <= 0 THEN a.G_int
                         ELSE a.G_int + MulDiv(a.Vm_prev + e.Vm, dP, 2000000),
             evals   |-> a.evals + 1,
             tols    |-> a.tols \cup {e.tol}]
    IN  IF a.i > nsteps THEN a
        ELSE Add(MolarVolume(T_cK, P_start + a.i * dP, thermo))

\* The trapezoidal loop.
RECURSIVE TrapezoidalLoop(_, _, _, _, _, _, _)
TrapezoidalLoop(T_cK, P_start, dP, nsteps, thermo, a, passes) ==
    IF passes <= 0 THEN a
    ELSE IF passes = 1 THEN TrapezoidalPass(T_cK, P_start, dP, nsteps, thermo, a)
    ELSE LET Rest(reached) ==
                 IF reached = reached
                 THEN TrapezoidalLoop(T_cK, P_start, dP, nsteps, thermo, reached, passes - passes \div 2)
                 ELSE reached
         IN  Rest(TrapezoidalLoop(T_cK, P_start, dP, nsteps, thermo, a, passes \div 2))

\* case WaterIntegrationMethod::Trapezoidal
trapezoidal(T_cK, P_start, P_end, nsteps, thermo) ==
    LET dP        == (P_end - P_start) \div nsteps
        Result(r) == [G_int |-> r.G_int, evals |-> r.evals, tols |-> r.tols]
        From(e0)  == Result(TrapezoidalLoop(T_cK, P_start, dP, nsteps, thermo,
                                            [i |-> 1, Vm_prev |-> e0.Vm, G_int |-> 0,
                                             evals |-> 1, tols |-> {e0.tol}],
                                            nsteps))
    IN  From(MolarVolume(T_cK, P_start, thermo))

\* Body of the two inner loops of simpsonRule:
\* for (i = first; i < nsteps; i += 2) sum += weight * Vm.
SimpsonPass(T_cK, P_start, h, nsteps, weight, thermo, a) ==
    LET Add(e) ==
            [i     |-> a.i + 2,
             sum   |-> a.sum + weight * e.Vm,
             evals |-> a.evals + 1,
             tols  |-> a.tols \cup {e.tol}]
    IN  IF a.i >= nsteps THEN a
        ELSE Add(MolarVolume(T_cK, P_start + a.i * h, thermo))

\* One inner loop of simpsonRule.
RECURSIVE SimpsonLoop(_, _, _, _, _, _, _, _)
SimpsonLoop(T_cK, P_start, h, nsteps, weight, thermo, a, passes) ==
    IF passes <= 0 THEN a
    ELSE IF passes = 1 THEN SimpsonPass(T_cK, P_start, h, nsteps, weight, thermo, a)
    ELSE LET Rest(reached) ==
                 IF reached = reached
                 THEN SimpsonLoop(T_cK, P_start, h, nsteps, weight, thermo, reached, passes - passes \div 2)
                 ELSE reached
         IN  Rest(SimpsonLoop(T_cK, P_start, h, nsteps, weight, thermo, a, passes \div 2))

\* simpsonRule: nsteps made even, (h / 3.0) * sum.
simpsonRule(T_cK, P_start, P_end, nsteps0, thermo) ==
    LET nsteps     == IF nsteps0 % 2 # 0 THEN nsteps0 + 1 ELSE nsteps0
        h          == (P_end - P_start) \div nsteps
        Last(a, e) == [G_int |-> MulDiv(h, a.sum + e.Vm, 3000000),
                       evals |-> a.evals + 1,
                       tols  |-> a.tols \cup {e.tol}]
        Evens(a)   == Last(SimpsonLoop(T_cK, P_start, h, nsteps, 2, thermo,
                                       [a EXCEPT !.i = 2], nsteps \div 2),
                           MolarVolume(T_cK, P_end, thermo))
        First(e)   == Evens(SimpsonLoop(T_cK, P_start, h, nsteps, 4, thermo,
                                        [i |-> 1, sum |-> e.Vm, evals |-> 1,
                                         tols |-> {e.tol}],
                                        nsteps \div 2))
    IN  First(MolarVolume(T_cK, P_start, thermo))

\* GaussLegendre16::N
GaussLegendre16_N == 16

\* GaussLegendre16::nodes, in 1e-6.
GaussLegendre16_nodes ==
    << -989401, -944575, -865631, -755404, -617876, -454545, -273663, -91430,
        91430,  273663,  454545,  617876,  755404,  865631,  944575,  989401 >>

\* GaussLegendre16::weights, in 1e-6.
GaussLegendre16_weights ==
    << 27152, 62254, 95159, 124629, 149596, 169142, 182603, 189451,
       189451, 182603, 169142, 149596, 124629, 95159, 62254, 27152 >>

\* Node loop body of one segment: seg_integral += weights[i] * Vm, in 1e-12
\* m3/mol (i counts from 1 here).
GaussNodePass(T_cK, center, half_width, thermo, a) ==
    LET Add(e) ==
            [i            |-> a.i + 1,
             seg_integral |-> a.seg_integral
                                + MulDiv(GaussLegendre16_weights[a.i], e.Vm, 1000),
             evals        |-> a.evals + 1,
             tols         |-> a.tols \cup {e.tol}]
    IN  IF a.i > GaussLegendre16_N THEN a
        ELSE Add(MolarVolume(T_cK,
                             center + MulDiv(half_width, GaussLegendre16_nodes[a.i],
                                             1000000),
                             thermo))

\* The node loop of one segment.
RECURSIVE GaussNodeLoop(_, _, _, _, _, _)
GaussNodeLoop(T_cK, center, half_width, thermo, a, passes) ==
    IF passes <= 0 THEN a
    ELSE IF passes = 1 THEN GaussNodePass(T_cK, center, half_width, thermo, a)
    ELSE LET Rest(reached) ==
                 IF reached = reached
                 THEN GaussNodeLoop(T_cK, center, half_width, thermo, reached, passes - passes \div 2)
                 ELSE reached
         IN  Rest(GaussNodeLoop(T_cK, center, half_width, thermo, a, passes \div 2))

\* Segment loop body: integral += half_width * seg_integral.
GaussSegmentPass(T_cK, P_start, segment_width, nsegments, thermo, a) ==
    LET P_seg_start == P_start + a.seg * segment_width
        P_seg_end   == P_seg_start + segment_width
        center      == P_seg_start + (P_seg_end - P_seg_start) \div 2
        half_width  == segment_width \div 2
        Add(sg)     == [seg      |-> a.seg + 1,
                        integral |-> a.integral
                                       + MulDiv(half_width, sg.seg_integral, 1000000000),
                        evals    |-> sg.evals,
                        tols     |-> sg.tols]
    IN  IF a.seg >= nsegments THEN a
        ELSE Add(GaussNodeLoop(T_cK, center, half_width, thermo,
                               [i |-> 1, seg_integral |-> 0,
                                evals |-> a.evals, tols |-> a.tols],
                               GaussLegendre16_N))

\* The segment loop.
RECURSIVE GaussSegmentLoop(_, _, _, _, _, _, _)
GaussSegmentLoop(T_cK, P_start, segment_width, nsegments, thermo, a, passes) ==
    IF passes <= 0 THEN a
    ELSE IF passes = 1 THEN GaussSegmentPass(T_cK, P_start, segment_width, nsegments, thermo, a)
    ELSE LET Rest(reached) ==
                 IF reached = reached
                 THEN GaussSegmentLoop(T_cK, P_start, segment_width, nsegments, thermo, reached, passes - passes \div 2)
                 ELSE reached
         IN  Rest(GaussSegmentLoop(T_cK, P_start, segment_width, nsegments, thermo, a, passes \div 2))

\* gaussLegendre16
gaussLegendre16(T_cK, P_start, P_end, nsegments, thermo) ==
    LET segment_width == (P_end - P_start) \div nsegments
        Result(r)     == [G_int |-> r.integral, evals |-> r.evals, tols |-> r.tols]
    IN  Result(GaussSegmentLoop(T_cK, P_start, segment_width, nsegments, thermo,
                                [seg |-> 0, integral |-> 0, evals |-> 0, tols |-> {}],
                                nsegments))

\* The fixed-step branch selected by opt: Excel mode, or the switch on
\* opt.integrationMethod other than AdaptiveSimpson.
P_start_Pa == 100000000

\* The branch of gibbsDewIntegral_J_per_mol that opt selects: the test of
\* opt.useExcelIntegration comes first, the switch on opt.integrationMethod
\* is in its else branch.
integrationBranch(opt) ==
    IF opt.useExcelIntegration THEN "Excel" ELSE opt.integrationMethod

fixedStepIntegral(T_cK, P_Pa, opt) ==
    IF opt.useExcelIntegration
    THEN excelIntegration(T_cK, P_Pa, thermoWithTol(opt))
    ELSE IF opt.integrationMethod = "Trapezoidal"
    THEN trapezoidal(T_cK, P_start_Pa, P_Pa, opt.integrationSteps, thermoWithTol(opt))
    ELSE IF opt.integrationMethod = "Simpson"
    THEN simpsonRule(T_cK, P_start_Pa, P_Pa, opt.integrationSteps, thermoWithTol(opt))
    ELSE gaussLegendre16(T_cK, P_start_Pa, P_Pa,
                         Max(1, opt.integrationSteps \div 16), thermoWithTol(opt))

(***************************************************************************)
(* Adaptive Simpson.  The recursion of adaptiveSimpsonsHelper is held as a *)
(* stack of pending calls [P_L, P_R, tol, depth, Vm_L, Vm_R]; the call on  *)
(* top runs next, and the left half is pushed above the right half, as the *)
(* code evaluates left_integral before right_integral.  tol is in units of *)
(* 1e-9 (it is compared with a molar volume in m3/mol).                    *)
(***************************************************************************)

\* h = (P_R - P_L) / 6.0;  S = h * (Vm_L + 4.0 * Vm_mid + Vm_R)  [0.001 J/mol]
SimpsonEstimate(P_L, P_R, Vm_L, Vm_mid, Vm_R) ==
    MulDiv(P_R - P_L, Vm_L + 4 * Vm_mid + Vm_R, 6000000)

\* The test with the factor 0.5 left out (a variant for comparison).
HelperAcceptsNoHalf(f, Vm_mid) ==
    Abs(Vm_mid - (f.Vm_L + f.Vm_R)) <= f.tol

\* error_estimator = |Vm_mid - 0.5 * (Vm_L + Vm_R)|;  error_estimator <= tol
\* (both sides doubled).
HelperAccepts(f, Vm_mid) ==
    Abs(2 * Vm_mid - (f.Vm_L + f.Vm_R)) <= 2 * f.tol

\* A pending call of adaptiveSimpsonsHelper.
Frame(P_L, P_R, tol, depth, Vm_L, Vm_R) ==
    [P_L |-> P_L, P_R |-> P_R, tol |-> tol, depth |-> depth,
     Vm_L |-> Vm_L, Vm_R |-> Vm_R]

\* No call of the helper has run yet.
NoCall == [outcome |-> "none"]

\* adaptiveSimpson: the two end-point evaluations and the call at depth 0.
adaptiveSimpson(g) ==
    LET Enter(eS, eE) ==
            [g EXCEPT !.pc = "helper",
                      !.evals = 2,
                      !.tols = {eS.tol, eE.tol},
                      !.stack = << Frame(P_start_Pa, g.in.P_Pa,
                                         g.in.adaptiveIntegrationTolerance, 0,
                                         eS.Vm, eE.Vm) >>]
    IN  Enter(MolarVolume(g.in.T_cK, P_start_Pa, thermoWithTol(g.in)),
              MolarVolume(g.in.T_cK, g.in.P_Pa, thermoWithTol(g.in)))

\* One call of adaptiveSimpsonsHelper, up to its return or its two
\* recursive calls.
adaptiveSimpsonsHelper(g) ==
    LET f      == Head(g.stack)
        P_mid  == f.P_L + (f.P_R - f.P_L) \div 2
        called == [g EXCEPT !.stack = Tail(g.stack),
                            !.maxCallDepth = Max(g.maxCallDepth, f.depth),
                            !.calls = g.calls + 1]
        \* the two quarter-point evaluations, then both halves
        Split(eM, eLM, eRM) ==
            [called EXCEPT !.evals = g.evals + 3,
                           !.tols = g.tols \cup {eM.tol, eLM.tol, eRM.tol},
                           !.stack =
                               << Frame(f.P_L, P_mid, f.tol \div 2, f.depth + 1,
                                        f.Vm_L, eM.Vm),
                                  Frame(P_mid, f.P_R, f.tol \div 2, f.depth + 1,
                                        eM.Vm, f.Vm_R) >> \o Tail(g.stack),
                           !.last = [outcome |-> "split", frame |-> f,
                                     Vm_mid |-> eM.Vm,
                                     S |-> SimpsonEstimate(f.P_L, f.P_R, f.Vm_L,
                                                           eM.Vm, f.Vm_R)]]
        \* return S
        Accept(eM, S) ==
            [called EXCEPT !.G_int = g.G_int + S,
                           !.evals = g.evals + 1,
                           !.tols = g.tols \cup {eM.tol},
                           !.last = [outcome |-> "accepted", frame |-> f,
                                     Vm_mid |-> eM.Vm, S |-> S]]
        Mid(eM) ==
            IF HelperAccepts(f, eM.Vm)
            THEN Accept(eM, SimpsonEstimate(f.P_L, f.P_R, f.Vm_L, eM.Vm, f.Vm_R))
            ELSE Split(eM,
                       MolarVolume(g.in.T_cK, f.P_L + (P_mid - f.P_L) \div 2,
                                   thermoWithTol(g.in)),
                       MolarVolume(g.in.T_cK, P_mid + (f.P_R - P_mid) \div 2,
                                   thermoWithTol(g.in)))
    IN  IF f.depth > g.in.maxAdaptiveSubdivisions
        THEN \* return 0.0
             [called EXCEPT !.dropped = g.dropped + (f.P_R - f.P_L),
                            !.last = [outcome |-> "cutoff", frame |-> f]]
        ELSE Mid(MolarVolume(g.in.T_cK, P_mid, thermoWithTol(g.in)))

\* saturationPressure(T_K) of the Gibbs model: Wagner & Pruss.
saturationPressure(T_cK) == waterSaturationPressureWagnerPruss(T_cK)

\* isNearPsat of the Gibbs model: diff <= relTol * Psat, relTol in parts per
\* million.
isNearPsat(T_cK, P_Pa, relTol) ==
    IF relTol <= 0 THEN FALSE
    ELSE /\ saturationPressure(T_cK) > 0
         /\ Abs(P_Pa - saturationPressure(T_cK))
              <= MulDiv(relTol, saturationPressure(T_cK), 1000000)

\* maybeOverrideWithPsatGibbs without the test of opt.usePsatPolynomials.
maybeOverrideWithPsatGibbsAlways(T_cK, P_Pa, opt, currentG) ==
    IF ~isNearPsat(T_cK, P_Pa, opt.psatRelativeTolerance) THEN currentG
    ELSE waterPsatGibbsDEW(T_cK)

\* maybeOverrideWithPsatGibbs
maybeOverrideWithPsatGibbs(T_cK, P_Pa, opt, currentG) ==
    IF ~opt.usePsatPolynomials THEN currentG
    ELSE IF ~isNearPsat(T_cK, P_Pa, opt.psatRelativeTolerance) THEN currentG
    ELSE waterPsatGibbsDEW(T_cK)

(***************************************************************************)
(* Specification of the water Gibbs model: one call of waterGibbsModel     *)
(* with opt.model = DewIntegral per behaviour.                             *)
(***************************************************************************)

\* Temperatures [0.01 K]: 373.15 K and 573.15 K.
GibbsTemperatures == {37315, 57315}

\* Pressures [Pa] below the reference: near Psat(373.15 K), 500 bar, and
\* 0.001 bar below 1000 bar.
PressuresBelow == {101400, 50000000, 99999900}

\* Pressures [Pa] at and just above the reference: 1000 bar and 1002 bar.
PressuresNear == {100000000, 100200000}

\* 5000 bar.
PressureHigh == 500000000

\* int integrationSteps = 5000
default_integrationSteps == 5000

\* Largest integrationSteps drawn for the fixed-step methods.
MaxStepsBound == 32

\* int maxAdaptiveSubdivisions = 20
default_maxAdaptiveSubdivisions == 20

\* Largest maxAdaptiveSubdivisions drawn for adaptive Simpson.
MaxSubdivisionsBound == 3

\* double adaptiveIntegrationTolerance = 0.1  [1e-9]
default_adaptiveIntegrationTolerance == 100000000

\* double densityTolerance = 0.001  [0.001 bar]
default_densityTolerance == 1

\* real psatRelativeTolerance = 1e-3  [1e-6]
default_psatRelativeTolerance == 1000

\* double pressureToleranceBar = 0.01  [0.001 bar]
ZD09_default_pressureToleranceBar == 10

\* double error_bar = 0.01  [0.001 bar]
zd05_default_error_bar == 10

\* The thermo options drawn: ZD05, whose two-argument call runs with a
\* default tolerance that the sources state as 0.01 bar (error_bar) or
\* 0.001 bar (densityTolerance), or ZD09 with its default options.
ThermoOptions ==
    { [eosModel |-> "ZhangDuan2005", zd05DefaultTolerance |-> t,
       zhangDuan2009Options |->
           [usePsat |-> FALSE,
            pressureToleranceBar |-> ZD09_default_pressureToleranceBar,
            maxIterations |-> ZD09_default_maxIterations],
       usePsatPolynomials |-> FALSE,
       psatRelativeTolerance |-> default_psatRelativeTolerance,
       densityTolerance |-> default_densityTolerance] :
        t \in {zd05_default_error_bar, default_densityTolerance} }
    \cup
    { [eosModel |-> "ZhangDuan2009", zd05DefaultTolerance |-> zd05_default_error_bar,
       zhangDuan2009Options |->
           [usePsat |-> FALSE,
            pressureToleranceBar |-> ZD09_default_pressureToleranceBar,
            maxIterations |-> ZD09_default_maxIterations],
       usePsatPolynomials |-> FALSE,
       psatRelativeTolerance |-> default_psatRelativeTolerance,
       densityTolerance |-> default_densityTolerance] }

\* The integration configurations drawn: Excel mode with each method
\* selected, the three fixed-step methods, and adaptive Simpson with
\* tolerances 0.1, 9.6e-8, 0 and -3.2e-8.
IntegrationMethods == {"Trapezoidal", "Simpson", "GaussLegendre16", "AdaptiveSimpson"}

IntegrationOptions ==
    { [useExcelIntegration |-> TRUE, integrationMethod |-> m,
       integrationSteps |-> default_integrationSteps,
       adaptiveIntegrationTolerance |-> default_adaptiveIntegrationTolerance,
       maxAdaptiveSubdivisions |-> default_maxAdaptiveSubdivisions] :
        m \in IntegrationMethods }
    \cup
    { [useExcelIntegration |-> FALSE, integrationMethod |-> m,
       integrationSteps |-> n,
       adaptiveIntegrationTolerance |-> default_adaptiveIntegrationTolerance,
       maxAdaptiveSubdivisions |-> default_maxAdaptiveSubdivisions] :
        m \in {"Trapezoidal", "Simpson", "GaussLegendre16"},
        n \in {4, MaxStepsBound} }
    \cup
    { [useExcelIntegration |-> FALSE, integrationMethod |-> "AdaptiveSimpson",
       integrationSteps |-> default_integrationSteps,
       adaptiveIntegrationTolerance |-> tol,
       maxAdaptiveSubdivisions |-> d] :
        tol \in {default_adaptiveIntegrationTolerance, 96, 0, -32},
        d \in {0, 2, MaxSubdivisionsBound} }

\* A call of waterGibbsModel with opt.model = DewIntegral.
GibbsCall(T, P, th, u, dt, io) ==
    [T_cK |-> T, P_Pa |-> P, model |-> "DewIntegral", thermo |-> th,
     usePsatPolynomials |-> u,
     psatRelativeTolerance |-> default_psatRelativeTolerance,
     densityTolerance |-> dt,
     useExcelIntegration |-> io.useExcelIntegration,
     integrationMethod |-> io.integrationMethod,
     integrationSteps |-> io.integrationSteps,
     adaptiveIntegrationTolerance |-> io.adaptiveIntegrationTolerance,
     maxAdaptiveSubdivisions |-> io.maxAdaptiveSubdivisions]

\* The calls drawn.  Excel mode steps by 1 bar up to 6000 bar, so it is
\* exercised up to 1002 bar only; the saturation override is switched on
\* for the pressures below 1000 bar, which include one near Psat(373.15 K).
\* The calls with opt.model = DelaneyHelgeson1978 are drawn at those
\* pressures, with the override on and off.
GibbsCalls ==
    { GibbsCall(T, P, th, FALSE, dt, io) :
        T \in GibbsTemperatures,
        P \in PressuresBelow \cup PressuresNear,
        th \in ThermoOptions,
        dt \in {default_densityTolerance, 100000},
        io \in IntegrationOptions }
    \cup
    { GibbsCall(T, PressureHigh, th, FALSE, dt, io) :
        T \in GibbsTemperatures,
        th \in ThermoOptions,
        dt \in {default_densityTolerance, 100000},
        io \in { o \in IntegrationOptions : ~o.useExcelIntegration } }
    \cup
    { GibbsCall(T, P, th, TRUE, default_densityTolerance, io) :
        T \in GibbsTemperatures,
        P \in PressuresBelow,
        th \in ThermoOptions,
        io \in IntegrationOptions }
    \cup
    { [GibbsCall(T, P, th, u, default_densityTolerance, io)
          EXCEPT !.model = "DelaneyHelgeson1978"] :
        T \in GibbsTemperatures,
        P \in PressuresBelow,
        th \in { o \in ThermoOptions : o.eosModel = "ZhangDuan2009" },
        u \in BOOLEAN,
        io \in { o \in IntegrationOptions :
                    o.integrationMethod = "Trapezoidal"
                      /\ o.integrationSteps \in {4, default_integrationSteps} } }

InitGibbs ==
    /\ gib \in [in : GibbsCalls, pc : {"call"}, G1k : {0}, G_int : {0},
                evals : {0}, tols : {{}}, stack : {<< >>}, calls : {0},
                maxCallDepth : {-1}, dropped : {0}, last : {NoCall},
                early : {FALSE}, overridden : {FALSE}, result : {0},
                ran : {"none"}, currentG : {0}]
    /\ den = Idle
    /\ born = Idle
    /\ el = Idle
    /\ psat = Idle
    /\ solv = Idle
    /\ ws = Idle
    /\ tbl = Idle
    /\ lk = Idle
    /\ cmp = Idle
    /\ ev = Idle
    /\ fx = Idle
    /\ tz = Idle

\* case WaterGibbsModel::DelaneyHelgeson1978
GibbsDelaneyHelgeson ==
    /\ gib.pc = "call"
    /\ gib.in.model = "DelaneyHelgeson1978"
    /\ gib' = [gib EXCEPT !.pc = "override",
                          !.result = gibbsDelaneyHelgeson1978_J_per_mol(gib.in.T_cK,
                                                                        gib.in.P_Pa)]
    /\ UNCHANGED <<den, born, el, psat, solv, ws, tbl, lk, cmp, ev, fx, tz>>

\* if (P_bar < 1000.0) return 0.0;  if (P_bar == 1000.0) return G1k
GibbsEarlyReturn ==
    /\ gib.pc = "call"
    /\ gib.in.model = "DewIntegral"
    /\ gibbsDewEarlyReturn(gib.in.T_cK, gib.in.P_Pa).returns
    /\ gib' = [gib EXCEPT !.pc = "override", !.early = TRUE,
                          !.result = gibbsDewEarlyReturn(gib.in.T_cK, gib.in.P_Pa).value]
    /\ UNCHANGED <<den, born, el, psat, solv, ws, tbl, lk, cmp, ev, fx, tz>>

\* Excel mode or a fixed-step method: the whole integration loop.
GibbsFixedStep ==
    /\ gib.pc = "call"
    /\ gib.in.model = "DewIntegral"
    /\ ~gibbsDewEarlyReturn(gib.in.T_cK, gib.in.P_Pa).returns
    /\ integrationBranch(gib.in) # "AdaptiveSimpson"
    /\ \E r \in {fixedStepIntegral(gib.in.T_cK, gib.in.P_Pa, gib.in)} :
          gib' = [gib EXCEPT !.pc = "total",
                             !.G1k = cal_to_J(GAtOneKb_cal_per_mol(toCelsius(gib.in.T_cK))),
                             !.G_int = r.G_int, !.evals = r.evals, !.tols = r.tols,
                             !.ran = integrationBranch(gib.in)]
    /\ UNCHANGED <<den, born, el, psat, solv, ws, tbl, lk, cmp, ev, fx, tz>>

\* case WaterIntegrationMethod::AdaptiveSimpson: the call of adaptiveSimpson.
GibbsAdaptiveStart ==
    /\ gib.pc = "call"
    /\ gib.in.model = "DewIntegral"
    /\ ~gibbsDewEarlyReturn(gib.in.T_cK, gib.in.P_Pa).returns
    /\ integrationBranch(gib.in) = "AdaptiveSimpson"
    /\ gib' = [adaptiveSimpson(gib) EXCEPT
                 !.G1k = cal_to_J(GAtOneKb_cal_per_mol(toCelsius(gib.in.T_cK))),
                 !.ran = "AdaptiveSimpson"]
    /\ UNCHANGED <<den, born, el, psat, solv, ws, tbl, lk, cmp, ev, fx, tz>>

\* The pending call on top of the stack runs.
GibbsAdaptiveHelper ==
    /\ gib.pc = "helper"
    /\ gib.stack # << >>
    /\ gib' = adaptiveSimpsonsHelper(gib)
    /\ UNCHANGED <<den, born, el, psat, solv, ws, tbl, lk, cmp, ev, fx, tz>>

\* adaptiveSimpson returns.
GibbsAdaptiveReturn ==
    /\ gib.pc = "helper"
    /\ gib.stack = << >>
    /\ gib' = [gib EXCEPT !.pc = "total"]
    /\ UNCHANGED <<den, born, el, psat, solv, ws, tbl, lk, cmp, ev, fx, tz>>

\* G_total_J = G1k_cal * 4.184 + G_int_J
GibbsTotal ==
    /\ gib.pc = "total"
    /\ gib' = [gib EXCEPT !.pc = "override", !.result = gib.G1k + gib.G_int]
    /\ UNCHANGED <<den, born, el, psat, solv, ws, tbl, lk, cmp, ev, fx, tz>>

\* waterGibbsModel: the Psat override and the return.
GibbsOverride ==
    /\ gib.pc = "override"
    /\ gib' = [gib EXCEPT
                 !.pc = "done",
                 !.currentG = gib.result,
                 !.result = maybeOverrideWithPsatGibbs(gib.in.T_cK, gib.in.P_Pa,
                                                       gib.in, gib.result),
                 !.overridden =
                     (gib.in.usePsatPolynomials
                        /\ isNearPsat(gib.in.T_cK, gib.in.P_Pa,
                                      gib.in.psatRelativeTolerance))]
    /\ UNCHANGED <<den, born, el, psat, solv, ws, tbl, lk, cmp, ev, fx, tz>>

NextGibbs ==
    \/ GibbsDelaneyHelgeson
    \/ GibbsEarlyReturn
    \/ GibbsFixedStep
    \/ GibbsAdaptiveStart
    \/ GibbsAdaptiveHelper
    \/ GibbsAdaptiveReturn
    \/ GibbsTotal
    \/ GibbsOverride

SpecGibbs == InitGibbs /\ [][NextGibbs]_vars

(***************************************************************************)
(* Properties of the density solver                                        *)
(***************************************************************************)

\* The run is a bisection (not the Psat polynomial shortcut) past its entry.
Bisecting == den.pc \in {"loop", "done"} /\ ~(den.eos = "ZhangDuan2009" /\ den.usePsat)

\* The initial bracket of the variant.
InitialLo == IF den.eos = "ZhangDuan2005" THEN zd05_rho_min ELSE ZD09_minGuess

InitialHi == IF den.eos = "ZhangDuan2005" THEN zd05_rho_max ELSE ZD09_maxGuess

\* C8 (as amended): the bisection performs at most cap forward-model
\* evaluations, where cap is the literal 50 for ZD05 and opts.maxIterations
\* (default 50, configurable) for ZD09; one evaluation is made per loop pass;
\* the Psat shortcut of ZD09 makes none; and when the loop ends at the cap
\* without meeting the tolerance, the density returned is the last iterate
\* (the midpoint computed by the last pass).
C8_IterationCap ==
    /\ [](/\ den.evals <= den.cap
          /\ den.iter <= den.evals
          /\ den.evals <= den.iter + 1
          /\ (den.eos = "ZhangDuan2005" => den.cap = 50 /\ den.evals <= 50)
          /\ (den.eos = "ZhangDuan2009" /\ den.usePsat => den.evals = 0))
    /\ [][den.pc = "loop" /\ den'.pc = "done" /\ ~den'.conv
            => den.iter = den.cap /\ den'.rho = den.rho /\ den'.evals = den.evals]_vars

\* C8 witness: a ZD05 run that ended at the cap, unconverged, after exactly
\* 50 evaluations.
C8_Witness ==
    /\ den.eos = "ZhangDuan2005"
    /\ den.pc = "done"
    /\ ~den.conv
    /\ den.evals = 50

\* C8 as stated: for both variants and every configuration, at most 50
\* forward-model evaluations.
C8_AsStated == den.evals <= 50

\* ceil-halving of a gap g, k times: the distance of the iterate from the
\* bracket end it approaches after k passes that all moved the same way.
RECURSIVE HalvedGap(_, _)
HalvedGap(g, k) == IF k = 0 \/ g <= 1 THEN g ELSE HalvedGap((g + 1) \div 2, k - 1)

\* The largest forward-model pressure over the bracket (the model is
\* piecewise linear between its nodes).
RECURSIVE SeqMax(_)
SeqMax(q) == IF Len(q) = 1 THEN q[1] ELSE Max(q[1], SeqMax(Tail(q)))

MaxForwardPressure(eos, T_cC) ==
    IF eos = "ZhangDuan2005" THEN SeqMax(zd05_pressure_nodes(T_cC))
    ELSE SeqMax(ZD09_pressure_nodes(T_cC))

\* The returned density lies in the initial bracket, and the moving bracket
\* stays inside it and ordered.
C9_InBracket ==
    Bisecting =>
        /\ InitialLo <= den.rho_min
        /\ den.rho_min <= den.rho
        /\ den.rho <= den.rho_max
        /\ den.rho_max <= InitialHi

\* A target below the forward pressure at rho_min returns rho_min itself.
C9_LowerBoundary ==
    Bisecting /\ den.pc = "done"
      /\ den.P_target < ForwardPressure(den.eos, InitialLo, den.T_cC)
    => den.rho = InitialLo

\* C9 (as amended): the returned density lies in the initial bracket; the
\* bracket never widens; a target below the forward pressure at rho_min
\* returns rho_min; and a target that exceeds the forward pressure at every
\* density of the bracket by more than the tolerance returns the iterate
\* that the cap allows nearest to rho_max (the gap to rho_max halved once
\* per pass).  A target merely above the forward pressure at rho_max does
\* not, because the forward models are not monotone in density.
C9_Bracket ==
    /\ [](/\ C9_InBracket
          /\ C9_LowerBoundary
          /\ (Bisecting /\ den.pc = "done"
                /\ den.P_target - MaxForwardPressure(den.eos, den.T_cC) > den.tol
              => InitialHi - den.rho = HalvedGap(InitialHi - InitialLo, den.cap)))
    /\ [][den.pc = "loop" =>
            /\ den'.rho_min >= den.rho_min
            /\ den'.rho_max <= den.rho_max]_vars

\* C9 witness: ZD05 at 300 degC asked for 500 kbar ran all 50 passes upward
\* and returned the last density below rho_max.
C9_Witness ==
    /\ den.eos = "ZhangDuan2005"
    /\ den.pc = "done"
    /\ den.P_target - MaxForwardPressure(den.eos, den.T_cC) > den.tol
    /\ den.iter = 50
    /\ den.rho = zd05_rho_max - 1

\* C9 as stated: within the bracket, and the nearest boundary returned when
\* the target is below the forward pressure at rho_min or above it at rho_max.
C9_AsStated ==
    /\ C9_InBracket
    /\ C9_LowerBoundary
    /\ (Bisecting /\ den.pc = "done"
          /\ den.P_target >= ForwardPressure(den.eos, InitialLo, den.T_cC)
          /\ den.P_target > ForwardPressure(den.eos, InitialHi, den.T_cC)
        => InitialHi - den.rho <= HalvedGap(InitialHi - InitialLo, den.cap))

(***************************************************************************)
(* Properties of the Born omega model                                      *)
(***************************************************************************)

\* C6: if Z = 0, or the hydrogen-like flag is set, or P is strictly above
\* the configured cutoff pressure, omega returns exactly wref and domega_dP
\* returns exactly 0, whatever T, P, wref and the water state (g, dgdP) are.
C6_ShortCircuit ==
    (born.in.Z = 0 \/ born.in.isHydrogenLike
       \/ born.in.P > born.in.maxPressureForVariation)
    => /\ (born.haveOmega => born.omega.value = born.in.wref)
       /\ (born.haveDomega => born.domega.value = 0)

\* C6 witness: both functions have returned for a charged, unpinned species
\* one Pa above the default cutoff, with a water state for which the formula
\* would give another omega and a non-zero derivative.
C6_Witness ==
    /\ born.haveOmega /\ born.haveDomega
    /\ born.in.Z = 1 /\ ~born.in.isHydrogenLike
    /\ born.in.maxPressureForVariation = default_maxPressureForVariation
    /\ born.in.P = default_maxPressureForVariation + 1
    /\ born.in.g = -100 /\ born.in.dgdP = 10 /\ born.in.wref = 614
    /\ born.omega.path = "bypass"

\* The non-trivial branch: none of the bypass conditions holds.
NonTrivial ==
    /\ born.in.Z # 0
    /\ ~born.in.isHydrogenLike
    /\ born.in.P <= born.in.maxPressureForVariation

\* C7 as stated: in the non-trivial branch, a denominator
\* wref/eta + Z/3.082 <= 0, or an effective radius r_ref + |Z| g <= 0, makes
\* omega return wref and domega_dP return 0 without dividing by that
\* denominator or that radius.
C7_AsStated ==
    NonTrivial /\ born.haveOmega /\ born.haveDomega
      /\ (BornDenom(born.in) <= 0
            \/ (BornDenom(born.in) # 0 /\ BornRe(born.in) <= 0))
    => /\ born.omega.value = born.in.wref
       /\ born.domega.value = 0
       /\ (BornDenom(born.in) <= 0 =>
             ~born.omega.divDenom /\ ~born.domega.divDenom)
       /\ ~born.omega.divRadius /\ ~born.domega.divRadius

\* C7 witness: a negative denominator with a positive effective radius, for
\* which omega was computed by the formula from a negative reference radius.
C7_Witness ==
    /\ NonTrivial /\ born.haveOmega /\ born.haveDomega
    /\ BornDenom(born.in) < 0
    /\ born.omega.path = "formula"
    /\ born.omega.value # born.in.wref
    /\ born.domega.value # 0

(***************************************************************************)
(* Properties of the water Gibbs model                                     *)
(***************************************************************************)

\* waterGibbsModel has returned.
Returned == gib.pc = "done"

\* G1k_cal * 4.184, the 1000-bar baseline of the call  [0.001 J/mol]
Baseline == cal_to_J(GAtOneKb_cal_per_mol(toCelsius(gib.in.T_cK)))

\* The call selected adaptive Simpson.
Adaptive ==
    ~gib.in.useExcelIntegration /\ gib.in.integrationMethod = "AdaptiveSimpson"

\* C1 (as amended): with the integral strategy and no saturation override
\* triggered, for every pressure strictly below 1000 bar the water Gibbs model
\* returns exactly 0 from the first test of gibbsDewIntegral_J_per_mol: not
\* the baseline G1k(T), no integral contribution, no integrand evaluation.
C1_BelowReferenceZero ==
    (Returned /\ gib.in.model = "DewIntegral"
       /\ gib.in.P_Pa < P_start_Pa /\ ~gib.overridden)
        => (gib.early /\ gib.result = 0 /\ gib.G_int = 0 /\ gib.evals = 0)

\* A call at 999.999 bar with the override switched on but not triggered has
\* returned 0.
C1_Witness ==
    /\ Returned
    /\ gib.in.model = "DewIntegral"
    /\ gib.in.P_Pa = 99999900
    /\ gib.in.usePsatPolynomials /\ ~gib.overridden
    /\ gib.early /\ gib.result = 0

\* C1 as stated: below 1000 bar the baseline G1k(T) is returned unchanged.
C1_AsStated ==
    (Returned /\ gib.in.model = "DewIntegral"
       /\ gib.in.P_Pa < P_start_Pa /\ ~gib.overridden)
        => (gib.result = Baseline /\ gib.G_int = 0)

\* C2 as stated: at exactly P = 1000 bar (1e8 Pa) the model returns exactly
\* the baseline G1k(T) and performs zero integrand evaluations, for every
\* integration method and for Excel mode.
C2_AsStated ==
    (Returned /\ gib.in.P_Pa = P_start_Pa /\ ~gib.overridden)
        => (gib.result = Baseline /\ gib.evals = 0)

\* At 1e8 Pa Excel mode has evaluated the integrand once and returned more
\* than the baseline.
C2_Witness ==
    /\ Returned
    /\ gib.in.P_Pa = P_start_Pa
    /\ gib.in.useExcelIntegration
    /\ ~gib.early /\ gib.evals = 1 /\ gib.result > Baseline

\* C3 as stated: a call at the maximum depth that has not met the tolerance
\* does not recurse (its Simpson estimate is accepted and added), and no
\* sub-interval of [1000 bar, P] is returned as 0.0.
C3_AsStated ==
    /\ gib.last.outcome = "split"
           => gib.last.frame.depth < gib.in.maxAdaptiveSubdivisions
    /\ gib.dropped = 0

\* An adaptive Simpson integration has returned with the whole interval
\* [1000 bar, P] dropped: the integral is 0 although P > 1000 bar.
C3_Witness ==
    /\ Returned /\ Adaptive
    /\ gib.in.P_Pa > P_start_Pa
    /\ gib.dropped = gib.in.P_Pa - P_start_Pa
    /\ gib.G_int = 0

\* Most integrand evaluations of adaptive Simpson under depth cap d: the two
\* end points and three per call at depth 0..d.
EvaluationBound(d) == 2 + 3 * (2 ^ (d + 1) - 1)

\* C4 as stated: for every tolerance no call of the helper is made at a depth
\* greater than maxAdaptiveSubdivisions, and the number of integrand
\* evaluations is bounded by a function of that cap alone.
C4_AsStated ==
    Adaptive =>
        /\ gib.maxCallDepth <= gib.in.maxAdaptiveSubdivisions
        /\ gib.evals <= EvaluationBound(gib.in.maxAdaptiveSubdivisions)

\* With a negative tolerance the helper has been called one level below the
\* cap.
C4_Witness ==
    /\ Returned /\ Adaptive
    /\ gib.in.adaptiveIntegrationTolerance < 0
    /\ gib.maxCallDepth = gib.in.maxAdaptiveSubdivisions + 1

SimpsonDifferenceAccepts(T_cK, thermo, f, Vm_mid) ==
    LET P_mid == f.P_L + (f.P_R - f.P_L) \div 2
        Test(eLM, eRM) ==
            Abs(SimpsonEstimate(f.P_L, f.P_R, f.Vm_L, Vm_mid, f.Vm_R)
                  - (SimpsonEstimate(f.P_L, P_mid, f.Vm_L, eLM.Vm, Vm_mid)
                       + SimpsonEstimate(P_mid, f.P_R, Vm_mid, eRM.Vm, f.Vm_R)))
                <= f.tol \div 1000000
    IN  Test(MolarVolume(T_cK, f.P_L + (P_mid - f.P_L) \div 2, thermo),
             MolarVolume(T_cK, P_mid + (f.P_R - P_mid) \div 2, thermo))

C10_AsStated == gib.tols \subseteq {gib.in.densityTolerance}

\* An integral has been computed under densityTolerance = 100 bar with every
\* bisection run at 0.01 bar.
C10_Witness ==
    /\ Returned
    /\ gib.evals > 0
    /\ gib.in.densityTolerance = 100000
    /\ gib.tols = {10}

\* C11 (as stated): when Simpson, GaussLegendre16 or AdaptiveSimpson is the
\* selected integration method, the integral is computed by that method,
\* whether or not the Excel-compatible flag is set.
C11_AsStated ==
    (gib.ran # "none" /\ gib.in.integrationMethod # "Trapezoidal")
        => gib.ran = gib.in.integrationMethod

\* The flag is set with Simpson selected above 1000 bar, and the integral has
\* been computed: by the Excel loop, one evaluation per bar.
C11_Witness ==
    /\ gib.pc = "total"
    /\ gib.in.useExcelIntegration
    /\ gib.in.integrationMethod = "Simpson"
    /\ gib.in.P_Pa > P_start_Pa
    /\ gib.ran = "Excel"
    /\ gib.evals = (gib.in.P_Pa - P_start_Pa) \div 100000 + 1

\* The value of the strategy selected by opt.model, as waterGibbsModel
\* passes it to the override.
SelectedStrategyValue ==
    IF gib.in.model = "DelaneyHelgeson1978"
    THEN gibbsDelaneyHelgeson1978_J_per_mol(gib.in.T_cK, gib.in.P_Pa)
    ELSE IF gib.early
    THEN gibbsDewEarlyReturn(gib.in.T_cK, gib.in.P_Pa).value
    ELSE gib.G1k + gib.G_int

\* C12: when the saturation override is enabled and (T,P) passes the
\* near-saturation test, waterGibbsModel returns the saturation-curve Gibbs
\* polynomial whichever strategy is selected; otherwise it returns the value
\* of the selected strategy unchanged.
C12_OverridePrecedence ==
    gib.pc = "done" =>
        /\ gib.currentG = SelectedStrategyValue
        /\ IF gib.in.usePsatPolynomials
              /\ isNearPsat(gib.in.T_cK, gib.in.P_Pa, gib.in.psatRelativeTolerance)
           THEN gib.result = waterPsatGibbsDEW(gib.in.T_cK)
           ELSE gib.result = gib.currentG

\* The Delaney-Helgeson strategy is selected, the override is enabled and
\* triggered near Psat(373.15 K), and the polynomial replaces the
\* strategy's value.
C12_Witness ==
    /\ gib.pc = "done"
    /\ gib.in.model = "DelaneyHelgeson1978"
    /\ gib.in.usePsatPolynomials
    /\ gib.overridden
    /\ gib.result = waterPsatGibbsDEW(gib.in.T_cK)
    /\ gib.result # gib.currentG

(***************************************************************************)
(* Dielectric model: the primary formulations and the two selectors with   *)
(* their saturation overrides.  Units: epsilon 0.1; d(epsilon)/d(rho) 0.01 *)
(* per g/cm3; drho/dP (wt.DP) 1e-9 kg/m3/Pa; epsilonP 1e-15 1/Pa; bornZ    *)
(* 1e-6; bornQ 1e-13 1/Pa, so that epsilonP / epsilon^2 is in the unit of  *)
(* bornQ.  The formulations are closed forms in (T, rho); they are held by *)
(* their values at 373.15 K and 573.15 K and at 0.7 and 0.95805 g/cm3.     *)
(* waterElectroPropsJohnsonNorton is not among the sources and is not      *)
(* drawn.                                                                  *)
(***************************************************************************)

\* rho_si / 1000.0  [1e-8 g/cm3 from 0.01 kg/m3]
density_si_to_g_cm3(rho_si) == rho_si * 1000

\* The value of a closed form in (T, rho) at the four points drawn.
AtPoint(T_cK, rho, v1, v2, v3, v4) ==
    IF T_cK = 37315 THEN (IF rho = 70000000 THEN v1 ELSE v2)
    ELSE (IF rho = 70000000 THEN v3 ELSE v4)

epsilon_franck(T_cK, rho) == AtPoint(T_cK, rho, 427, 964, 217, 359)

depsdrho_franck(T_cK, rho) == AtPoint(T_cK, rho, 9922, 72492, 4728, 6940)

epsilon_fernandez(T_cK, rho) == AtPoint(T_cK, rho, 368, 555, 196, 315)

depsdrho_fernandez(T_cK, rho) == AtPoint(T_cK, rho, 7245, 7470, 4262, 5072)

epsilon_power(T_cK, rho) == AtPoint(T_cK, rho, 365, 545, 203, 322)

depsdrho_power(T_cK, rho) == AtPoint(T_cK, rho, 6662, 7270, 4246, 4908)

\* -1.0 / eps  [1e-6]
BornZOf(eps) == -(10000000 \div eps)

\* epsilonP / (eps * eps)  [1e-13 1/Pa]
BornQOf(epsilonP, eps) == QuoTrunc(epsilonP, eps * eps)

\* The body shared by the three formulations: epsilon, epsilonP by the chain
\* rule (deps_drho_g * wt.DP / 1000.0), Z = -1/eps, Q = epsilonP / eps^2.
\* Fernandez and PowerFunction set Z = Q = 0 when eps = 0.
ChainRuleProps(eps, deps_drho_g, wt) ==
    LET Props(epsilonP) ==
            [epsilon  |-> eps,
             epsilonP |-> epsilonP,
             bornZ    |-> IF eps # 0 THEN BornZOf(eps) ELSE 0,
             bornQ    |-> IF eps # 0 THEN BornQOf(epsilonP, eps) ELSE 0]
    IN  Props(deps_drho_g * wt.DP * 10)

waterElectroPropsFranck1990(T_cK, P_Pa, wt) ==
    ChainRuleProps(epsilon_franck(T_cK, density_si_to_g_cm3(wt.D)),
                   depsdrho_franck(T_cK, density_si_to_g_cm3(wt.D)), wt)

waterElectroPropsFernandez1997(T_cK, P_Pa, wt) ==
    ChainRuleProps(epsilon_fernandez(T_cK, density_si_to_g_cm3(wt.D)),
                   depsdrho_fernandez(T_cK, density_si_to_g_cm3(wt.D)), wt)

waterElectroPropsPowerFunction(T_cK, P_Pa, wt) ==
    ChainRuleProps(epsilon_power(T_cK, density_si_to_g_cm3(wt.D)),
                   depsdrho_power(T_cK, density_si_to_g_cm3(wt.D)), wt)

\* waterPsatEpsilonDEW(T) at 100 and 300 degC  [0.1]
waterPsatEpsilonDEW(T_cK) == IF T_cK = 37315 THEN 555 ELSE 204

\* waterPsatBornQDEW(T) at 100 and 300 degC  [1e-13 1/Pa]
waterPsatBornQDEW(T_cK) == IF T_cK = 37315 THEN 115 ELSE 2329

\* evaluatePrimaryModel (WaterDielectricModel.cpp) and the switch on
\* opt.model (WaterElectroModel.cpp): the same three callees.
evaluatePrimaryModel(T_cK, P_Pa, wt, model) ==
    IF model = "Franck1990" THEN waterElectroPropsFranck1990(T_cK, P_Pa, wt)
    ELSE IF model = "Fernandez1997" THEN waterElectroPropsFernandez1997(T_cK, P_Pa, wt)
    ELSE waterElectroPropsPowerFunction(T_cK, P_Pa, wt)

\* isNearPsat of WaterDielectricModel.cpp and of WaterElectroModel.cpp (the
\* tests of the two copies on finite arguments are the same).
isNearPsatDielectric(T_cK, P_Pa, reltol) ==
    IF reltol <= 0 THEN FALSE
    ELSE /\ waterSaturationPressureWagnerPruss(T_cK) > 0
         /\ Abs(P_Pa - waterSaturationPressureWagnerPruss(T_cK))
              <= MulDiv(reltol, waterSaturationPressureWagnerPruss(T_cK), 1000000)

\* applyPsatOverrides without the assignment of bornQ.
applyPsatOverridesEpsilonOnly(T_cK, opts, we) ==
    [we EXCEPT
       !.epsilon  = waterPsatEpsilonDEW(T_cK),
       !.bornZ    = IF waterPsatEpsilonDEW(T_cK) # 0
                    THEN BornZOf(waterPsatEpsilonDEW(T_cK)) ELSE 0,
       !.epsilonP = 0]

\* applyPsatOverrides (WaterDielectricModel.cpp): epsilon and bornZ from the
\* epsilon polynomial, bornQ from the Q polynomial if overrideQWithPsatFit,
\* epsilonP (with the other derivatives) set to 0.0.
applyPsatOverrides(T_cK, opts, we) ==
    [we EXCEPT
       !.epsilon  = waterPsatEpsilonDEW(T_cK),
       !.bornZ    = IF waterPsatEpsilonDEW(T_cK) # 0
                    THEN BornZOf(waterPsatEpsilonDEW(T_cK)) ELSE 0,
       !.bornQ    = IF opts.overrideQWithPsatFit
                    THEN waterPsatBornQDEW(T_cK) ELSE we.bornQ,
       !.epsilonP = 0]

\* Step 2 of waterElectroPropsModel (WaterDielectricModel.cpp): the switch on
\* opts.psatMode.
dielectricPsatStep(T_cK, P_Pa, opts, we) ==
    IF opts.psatMode = "None" THEN we
    ELSE IF opts.psatMode = "UsePsatWhenNear"
    THEN (IF isNearPsatDielectric(T_cK, P_Pa, opts.psatRelativeTolerance)
          THEN applyPsatOverrides(T_cK, opts, we) ELSE we)
    ELSE applyPsatOverrides(T_cK, opts, we)

\* maybeApplyPsatOverride (WaterElectroModel.cpp): epsilon, bornZ and bornQ
\* from the polynomials, and epsilonP = Q_p * eps_p^2.
maybeApplyPsatOverride(T_cK, P_Pa, opt, we) ==
    IF ~opt.usePsatPolynomials THEN we
    ELSE IF ~isNearPsatDielectric(T_cK, P_Pa, opt.psatRelativeTolerance) THEN we
    ELSE IF waterPsatEpsilonDEW(T_cK) <= 0 THEN we
    ELSE [we EXCEPT
            !.epsilon  = waterPsatEpsilonDEW(T_cK),
            !.bornZ    = BornZOf(waterPsatEpsilonDEW(T_cK)),
            !.bornQ    = waterPsatBornQDEW(T_cK),
            !.epsilonP = waterPsatBornQDEW(T_cK)
                           * (waterPsatEpsilonDEW(T_cK) * waterPsatEpsilonDEW(T_cK))]

(***************************************************************************)
(* Specification of the dielectric model: one call of one of the two       *)
(* waterElectroPropsModel selectors per behaviour, in two steps.           *)
(***************************************************************************)

\* Pressures [Pa]: near Psat(373.15 K), near Psat(573.15 K), and 500 bar.
ElectroPressures == {101400, 8590000, 50000000}

\* The thermo states passed in: D [0.01 kg/m3] and DP [1e-9 kg/m3/Pa].
ElectroThermoStates == {[D |-> 95805, DP |-> 470], [D |-> 70000, DP |-> 2100]}

PrimaryModels == {"Franck1990", "Fernandez1997", "PowerFunction"}

PsatModes == {"None", "UsePsatWhenNear", "ForcePsat"}

\* WaterDielectricModelOptions (selector of WaterDielectricModel.cpp, the
\* one waterState calls) and WaterElectroModelOptions (selector of
\* WaterElectroModel.cpp).
ElectroOptions ==
    { [selector |-> "WaterDielectricModel", primary |-> m, psatMode |-> pm,
       psatRelativeTolerance |-> default_psatRelativeTolerance,
       overrideQWithPsatFit |-> q, usePsatPolynomials |-> FALSE] :
        m \in PrimaryModels, pm \in PsatModes, q \in BOOLEAN }
    \cup
    { [selector |-> "WaterElectroModel", primary |-> m, psatMode |-> "None",
       psatRelativeTolerance |-> default_psatRelativeTolerance,
       overrideQWithPsatFit |-> TRUE, usePsatPolynomials |-> u] :
        m \in PrimaryModels, u \in BOOLEAN }

NoProps == [epsilon |-> 0, epsilonP |-> 0, bornZ |-> 0, bornQ |-> 0]

InitElectro ==
    /\ el \in [T_cK : GibbsTemperatures, P_Pa : ElectroPressures,
               wt : ElectroThermoStates, opts : ElectroOptions,
               pc : {"call"}, primary : {NoProps}, we : {NoProps},
               overrideApplied : {FALSE}]
    /\ den = Idle
    /\ gib = Idle
    /\ born = Idle
    /\ psat = Idle
    /\ solv = Idle
    /\ ws = Idle
    /\ tbl = Idle
    /\ lk = Idle
    /\ cmp = Idle
    /\ ev = Idle
    /\ fx = Idle
    /\ tz = Idle

\* Step 1: the primary formulation.
ElectroPrimary ==
    /\ el.pc = "call"
    /\ \E we \in {evaluatePrimaryModel(el.T_cK, el.P_Pa, el.wt, el.opts.primary)} :
          el' = [el EXCEPT !.pc = "psat", !.primary = we, !.we = we]
    /\ UNCHANGED <<den, gib, born, psat, solv, ws, tbl, lk, cmp, ev, fx, tz>>

\* Step 2 of the selector of WaterDielectricModel.cpp, and the return.
ElectroPsatMode ==
    /\ el.pc = "psat"
    /\ el.opts.selector = "WaterDielectricModel"
    /\ el' = [el EXCEPT
                !.pc = "done",
                !.we = dielectricPsatStep(el.T_cK, el.P_Pa, el.opts, el.we),
                !.overrideApplied =
                    \/ el.opts.psatMode = "ForcePsat"
                    \/ /\ el.opts.psatMode = "UsePsatWhenNear"
                       /\ isNearPsatDielectric(el.T_cK, el.P_Pa,
                                               el.opts.psatRelativeTolerance)]
    /\ UNCHANGED <<den, gib, born, psat, solv, ws, tbl, lk, cmp, ev, fx, tz>>

\* Step 2 of the selector of WaterElectroModel.cpp, and the return.
ElectroMaybeOverride ==
    /\ el.pc = "psat"
    /\ el.opts.selector = "WaterElectroModel"
    /\ el' = [el EXCEPT
                !.pc = "done",
                !.we = maybeApplyPsatOverride(el.T_cK, el.P_Pa, el.opts, el.we),
                !.overrideApplied =
                    /\ el.opts.usePsatPolynomials
                    /\ isNearPsatDielectric(el.T_cK, el.P_Pa,
                                            el.opts.psatRelativeTolerance)
                    /\ waterPsatEpsilonDEW(el.T_cK) > 0]
    /\ UNCHANGED <<den, gib, born, psat, solv, ws, tbl, lk, cmp, ev, fx, tz>>

NextElectro == ElectroPrimary \/ ElectroPsatMode \/ ElectroMaybeOverride

SpecElectro == InitElectro /\ [][NextElectro]_vars

(***************************************************************************)
(* Properties of the dielectric model.                                     *)
(***************************************************************************)

\* The Born coefficients of a state follow from its own epsilon and epsilonP.
BornConsistent(we) ==
    /\ we.epsilon # 0
    /\ we.bornZ = BornZOf(we.epsilon)
    /\ we.bornQ = BornQOf(we.epsilonP, we.epsilon)

\* C13 (as stated): every ElectroState returned by the dielectric model, for
\* each formulation and with or without the near-saturation override applied,
\* satisfies Z = -1/epsilon and Q = epsilonP / epsilon^2 with respect to the
\* epsilon and epsilonP stored in that same state.
C13_AsStated == el.pc = "done" => BornConsistent(el.we)

\* The selector that waterState calls has applied the override near Psat:
\* Q is the polynomial value, epsilonP is zero.
C13_Witness ==
    /\ el.pc = "done"
    /\ el.opts.selector = "WaterDielectricModel"
    /\ el.opts.psatMode = "UsePsatWhenNear"
    /\ el.opts.overrideQWithPsatFit
    /\ el.overrideApplied
    /\ el.we.bornQ = waterPsatBornQDEW(el.T_cK)
    /\ el.we.epsilonP = 0
    /\ el.we.bornQ # BornQOf(el.we.epsilonP, el.we.epsilon)

\* (T,P) of the call passes the near-saturation test of the dielectric model.
ElectroNear == isNearPsatDielectric(el.T_cK, el.P_Pa, el.opts.psatRelativeTolerance)

\* The near-saturation override is enabled: psatMode = UsePsatWhenNear for
\* the selector of WaterDielectricModel.cpp, usePsatPolynomials for the
\* selector of WaterElectroModel.cpp.
ElectroOverrideEnabled ==
    IF el.opts.selector = "WaterDielectricModel"
    THEN el.opts.psatMode = "UsePsatWhenNear"
    ELSE el.opts.usePsatPolynomials

\* The Q polynomial is to replace bornQ: always for WaterElectroModel.cpp,
\* under overrideQWithPsatFit for WaterDielectricModel.cpp.
ElectroOverridesQ ==
    el.opts.selector = "WaterElectroModel" \/ el.opts.overrideQWithPsatFit

\* C14 (as amended): when the override is enabled and (T,P) is near
\* saturation, or when psatMode is ForcePsat, the returned epsilon is the
\* saturation-curve epsilon polynomial, and the returned Born Q is the
\* saturation-curve Q polynomial if the configuration asks for Q to be
\* overridden (overrideQWithPsatFit, the default) and the primary
\* formulation's chain-rule Q otherwise; in every other case the primary
\* formulation's values are returned unchanged.
C14_OverrideValues ==
    el.pc = "done" =>
        IF (ElectroOverrideEnabled /\ ElectroNear) \/ el.opts.psatMode = "ForcePsat"
        THEN /\ el.we.epsilon = waterPsatEpsilonDEW(el.T_cK)
             /\ el.we.bornQ = IF ElectroOverridesQ
                              THEN waterPsatBornQDEW(el.T_cK)
                              ELSE el.primary.bornQ
        ELSE el.we = el.primary

\* The override is enabled and triggered, and both epsilon and Q have been
\* replaced by polynomial values that differ from the primary formulation's.
C14_Witness ==
    /\ el.pc = "done"
    /\ el.opts.selector = "WaterDielectricModel"
    /\ ElectroOverrideEnabled /\ ElectroNear /\ ElectroOverridesQ
    /\ el.we.epsilon = waterPsatEpsilonDEW(el.T_cK)
    /\ el.we.epsilon # el.primary.epsilon
    /\ el.we.bornQ = waterPsatBornQDEW(el.T_cK)
    /\ el.we.bornQ # el.primary.bornQ

\* C14 as stated: override enabled and near saturation gives the epsilon
\* polynomial and the Q polynomial; not near saturation gives the primary
\* formulation's values unchanged.
C14_AsStated ==
    (el.pc = "done" /\ ElectroOverrideEnabled) =>
        IF ElectroNear
        THEN /\ el.we.epsilon = waterPsatEpsilonDEW(el.T_cK)
             /\ el.we.bornQ = waterPsatBornQDEW(el.T_cK)
        ELSE el.we = el.primary

(***************************************************************************)
(* Specification of the near-saturation test: the three copies of the test *)
(* (EOS selector, dielectric model, Gibbs model) applied, in any order, to *)
(* one (T, P, relTol).                                                     *)
(***************************************************************************)

\* P - Psat(T) [Pa]: on the curve, the last offsets inside and the first
\* outside a tolerance of 1e-3 at 373.15 K (101 / 102 Pa) and at 573.15 K
\* (8587 / 8588 Pa), and far from the curve.
PsatOffsets == {0, -102, -101, 101, 102, 8587, 8588, 40000000}

\* Relative tolerances [1e-6]: the default 1e-3, 1e-6, zero and a negative one.
RelativeTolerances == {default_psatRelativeTolerance, 1, 0, -1000}

Components == {"density", "dielectric", "gibbs"}

InitPsat ==
    /\ psat \in [T_cK : GibbsTemperatures, offset : PsatOffsets,
                 relTol : RelativeTolerances, near : {[c \in {} |-> FALSE]}]
    /\ den = Idle
    /\ gib = Idle
    /\ born = Idle
    /\ el = Idle
    /\ solv = Idle
    /\ ws = Idle
    /\ tbl = Idle
    /\ lk = Idle
    /\ cmp = Idle
    /\ ev = Idle
    /\ fx = Idle
    /\ tz = Idle

PsatPressure == waterSaturationPressureWagnerPruss(psat.T_cK) + psat.offset

\* maybeApplyDewPsatOverride evaluates its test.
NearDensity ==
    /\ psat # Idle
    /\ "density" \notin DOMAIN psat.near
    /\ psat' = [psat EXCEPT !.near = psat.near @@
                   ("density" :> isNearPsatWagnerPruss(psat.T_cK, PsatPressure,
                                                       psat.relTol))]
    /\ UNCHANGED <<den, gib, born, el, solv, ws, tbl, lk, cmp, ev, fx, tz>>

\* waterElectroPropsModel evaluates its test.
NearDielectric ==
    /\ psat # Idle
    /\ "dielectric" \notin DOMAIN psat.near
    /\ psat' = [psat EXCEPT !.near = psat.near @@
                   ("dielectric" :> isNearPsatDielectric(psat.T_cK, PsatPressure,
                                                         psat.relTol))]
    /\ UNCHANGED <<den, gib, born, el, solv, ws, tbl, lk, cmp, ev, fx, tz>>

\* maybeOverrideWithPsatGibbs evaluates its test.
NearGibbs ==
    /\ psat # Idle
    /\ "gibbs" \notin DOMAIN psat.near
    /\ psat' = [psat EXCEPT !.near = psat.near @@
                   ("gibbs" :> isNearPsat(psat.T_cK, PsatPressure, psat.relTol))]
    /\ UNCHANGED <<den, gib, born, el, solv, ws, tbl, lk, cmp, ev, fx, tz>>

NextPsat == NearDensity \/ NearDielectric \/ NearGibbs

SpecPsat == InitPsat /\ [][NextPsat]_vars

\* |P - Psat(T)| / Psat(T) <= relTol, by the quotient of |P - Psat| * 1e6 by
\* Psat and its remainder (relTol is in units of 1e-6).
WithinRelativeTolerance(T_cK, P_Pa, relTol) ==
    LET Psat     == waterSaturationPressureWagnerPruss(T_cK)
        diff     == Abs(P_Pa - Psat)
        Le(qr)   == \/ (diff \div Psat) * 1000000 + qr[1] < relTol
                    \/ (diff \div Psat) * 1000000 + qr[1] = relTol /\ qr[2] = 0
    IN  Le(MulDivQR(diff % Psat, 1000000, Psat))

rho_si_to_g_cm3(rho_si) == rho_si * 1000

\* 1 g/cm3  [1e-8 g/cm3]
OneGramPerCm3 == 100000000

\* waterPsatDensityDEW(T_K)  [0.01 kg/m3]; 1000.177 kg/m3 at 5 degC.
waterPsatDensityDEW(T_cK) ==
    IF T_cK = 27815 THEN 100017
    ELSE rho_kg_m3_from_g_cm3(densityPsatPoly_DEW(toCelsius(T_cK)))

\* a_g * pow(1 - rho, b_g) - f
solventG(T_cK, P_Pa, rho_g) ==
    IF T_cK = 27815
    THEN (IF rho_g = 70000000 THEN -137250200
          ELSE IF rho_g = 95805000 THEN -923 ELSE 0)
    ELSE IF T_cK = 37315
    THEN (IF rho_g = 70000000 THEN -306420269
          ELSE IF rho_g = 95805000 THEN -11963
          ELSE IF rho_g = 95856000 THEN -11224 ELSE 0)
    ELSE IF P_Pa <= 100000000
    THEN (IF rho_g = 70000000 THEN -661384095
          ELSE IF rho_g = 95805000 THEN 48072106 ELSE 48330054)
    ELSE (IF rho_g = 70000000 THEN -709714149
          ELSE IF rho_g = 95805000 THEN -257948 ELSE 0)

\* (-b_g * drho_g_dP_bar * g / one_minus_rho - dfdP_bar) * 1.0e-5, at the g
\* of the same (T, P, rho) and at the wt.DP drawn with that density.
solventDgdP(T_cK, P_Pa, rho_g) ==
    IF T_cK = 27815
    THEN (IF rho_g = 70000000 THEN 58163498 ELSE 626)
    ELSE IF T_cK = 37315
    THEN (IF rho_g = 70000000 THEN 110675115 ELSE 6916)
    ELSE IF P_Pa <= 100000000
    THEN (IF rho_g = 70000000 THEN 159315229 ELSE -48746435)
    ELSE (IF rho_g = 70000000 THEN 199998884 ELSE 116344)

\* waterPsatDgdPDEW(T_K): 0 below 0.01 degC, else exp(...) * 1.0e-6, which is
\* 1.06e-42 at 5 degC and 1.12e-10 at 100 degC.
waterPsatDgdPDEW(T_cK) ==
    IF toCelsius(T_cK) < 1 THEN 0
    ELSE IF T_cK = 27815 THEN 1 ELSE 112032531

\* waterSolventFunctionDEW: the Psat branch with the polynomial density and
\* Psat(T), the general branch with wt.D and P.
waterSolventFunctionDEW(T_cK, P_Pa, wt, opt) ==
    IF opt.Psat
    THEN (IF rho_si_to_g_cm3(waterPsatDensityDEW(T_cK)) >= OneGramPerCm3 THEN 0
          ELSE solventG(T_cK, waterSaturationPressureWagnerPruss(T_cK),
                        rho_si_to_g_cm3(waterPsatDensityDEW(T_cK))))
    ELSE IF rho_si_to_g_cm3(wt.D) >= OneGramPerCm3 THEN 0
    ELSE solventG(T_cK, P_Pa, rho_si_to_g_cm3(wt.D))

\* waterSolventFunctionDgdP_DEW: the Psat branch returns the polynomial
\* before any density is looked at.
waterSolventFunctionDgdP_DEW(T_cK, P_Pa, wt, g, opt) ==
    IF opt.Psat THEN waterPsatDgdPDEW(T_cK)
    ELSE IF rho_si_to_g_cm3(wt.D) >= OneGramPerCm3 THEN 0
    ELSE solventDgdP(T_cK, P_Pa, rho_si_to_g_cm3(wt.D))

(***************************************************************************)
(* Specification of the solvent function: g, then dgdP with that g.        *)
(***************************************************************************)

\* Temperatures [0.01 K]: 278.15 K, 373.15 K and 573.15 K.
SolventTemperatures == {27815, 37315, 57315}

\* Pressures [Pa]: 500 bar and 2000 bar.
SolventPressures == {50000000, 200000000}

\* Thermo states: 0.7, 0.95805, 1.0 and 1.1 g/cm3.
SolventThermoStates ==
    {[D |-> 70000, DP |-> 2100], [D |-> 95805, DP |-> 470],
     [D |-> 100000, DP |-> 470], [D |-> 110000, DP |-> 470]}

\* The calls drawn; the Psat branch at 278.15 K and 373.15 K.
SolventCalls ==
    { [T_cK |-> T, P_Pa |-> P, wt |-> wt, opt |-> [Psat |-> FALSE]] :
        T \in SolventTemperatures, P \in SolventPressures,
        wt \in SolventThermoStates }
    \cup
    { [T_cK |-> T, P_Pa |-> P, wt |-> wt, opt |-> [Psat |-> TRUE]] :
        T \in {27815, 37315}, P \in SolventPressures,
        wt \in SolventThermoStates }

InitSolvent ==
    /\ solv \in [in : SolventCalls, pc : {"call"}, g : {0}, dgdP : {0}]
    /\ den = Idle
    /\ gib = Idle
    /\ born = Idle
    /\ el = Idle
    /\ psat = Idle
    /\ ws = Idle
    /\ tbl = Idle
    /\ lk = Idle
    /\ cmp = Idle
    /\ ev = Idle
    /\ fx = Idle
    /\ tz = Idle

\* waterSolventFunctionDEW(T, P, wt, opt)
SolventGStep ==
    /\ solv.pc = "call"
    /\ solv' = [solv EXCEPT
                  !.pc = "g",
                  !.g = waterSolventFunctionDEW(solv.in.T_cK, solv.in.P_Pa,
                                                solv.in.wt, solv.in.opt)]
    /\ UNCHANGED <<den, gib, born, el, psat, ws, tbl, lk, cmp, ev, fx, tz>>

\* waterSolventFunctionDgdP_DEW(T, P, wt, g, opt)
SolventDgdPStep ==
    /\ solv.pc = "g"
    /\ solv' = [solv EXCEPT
                  !.pc = "done",
                  !.dgdP = waterSolventFunctionDgdP_DEW(solv.in.T_cK, solv.in.P_Pa,
                                                        solv.in.wt, solv.g,
                                                        solv.in.opt)]
    /\ UNCHANGED <<den, gib, born, el, psat, ws, tbl, lk, cmp, ev, fx, tz>>

NextSolvent == SolventGStep \/ SolventDgdPStep

SpecSolvent == InitSolvent /\ [][NextSolvent]_vars

\* The density that waterSolventFunctionDEW tests: the saturation polynomial
\* in the Psat branch, wt.D otherwise.
SolventDensityUsed ==
    IF solv.in.opt.Psat
    THEN rho_si_to_g_cm3(waterPsatDensityDEW(solv.in.T_cK))
    ELSE rho_si_to_g_cm3(solv.in.wt.D)

\* An along-saturation call at 278.15 K, where the polynomial density is
\* 1.000177 g/cm3: g has returned 0 and dgdP the saturation polynomial, which
\* is not 0.
C16_Witness ==
    /\ solv.pc = "done"
    /\ solv.in.opt.Psat
    /\ SolventDensityUsed >= OneGramPerCm3
    /\ solv.g = 0
    /\ solv.dgdP = waterPsatDgdPDEW(solv.in.T_cK)
    /\ solv.dgdP # 0

\* C16: for every (T,P) and configuration, whenever the density used by the
\* solvent function is >= 1 g/cm3, g is exactly 0 and dgdP is exactly 0.
C16_AsStated ==
    (solv.pc = "done" /\ SolventDensityUsed >= OneGramPerCm3)
        => (solv.g = 0 /\ solv.dgdP = 0)

(***************************************************************************)
(* Orchestration: waterState, called directly or from the evaluation       *)
(* function of StandardThermoModelDEW, which goes on to the Born omega of  *)
(* the species.  A behaviour is three calls in a row: a first call, a call *)
(* with any inputs, and the first call again.  The thermo stage returns    *)
(* the state wt given with the call (the density solver is the subject of  *)
(* SpecDensity); the Gibbs stage is drawn with opts.gibbs.model =          *)
(* DelaneyHelgeson1978, its default (DewIntegral is the subject of         *)
(* SpecGibbs).  Two counters record the density solves at (T,P) and the    *)
(* evaluations of waterSolventFunctionDEW within one call.                 *)
(***************************************************************************)

\* The members of WaterState with their default initialisers.
WaterStateDefaults ==
    [thermo |-> [D |-> 0, DP |-> 0], electro |-> NoProps,
     hasGibbs |-> FALSE, hasSolventG |-> FALSE, hasOmega |-> FALSE,
     gibbs |-> 0, g_solv |-> 0, dgdP |-> 0, omega |-> 0, domega_dP |-> 0]

\* "static WaterState ws;": the object keeps what the last call left in it.
WaterStateStatic(last) ==
    IF last = Idle THEN WaterStateDefaults ELSE last

\* "WaterState ws;": a local object, default-initialised at every call
\* whatever an earlier call left.
WaterStateLocal(last) ==
    WaterStateDefaults

\* WaterBornOmegaOptions omegaOpts;  (default options)
DefaultOmegaOptions ==
    [solvent |-> [Psat |-> FALSE], isHydrogenLike |-> FALSE,
     maxPressureForVariation |-> default_maxPressureForVariation]

\* configureWaterStateOptions
configureWaterStateOptions(waterOpts) ==
    [thermo |-> [usePsatPolynomials |-> waterOpts.usePsatPolynomials],
     dielectric |->
         [selector |-> "WaterDielectricModel",
          primary |-> waterOpts.dielectricModel,
          psatMode |-> IF waterOpts.usePsatPolynomials
                       THEN "UsePsatWhenNear" ELSE "None",
          psatRelativeTolerance |-> waterOpts.psatRelTol,
          overrideQWithPsatFit |-> TRUE, usePsatPolynomials |-> FALSE],
     computeGibbs |-> TRUE,
     gibbs |-> [model |-> waterOpts.gibbsModel, usePsatPolynomials |-> FALSE,
                psatRelativeTolerance |-> default_psatRelativeTolerance],
     computeSolventG |-> TRUE,
     solvent |-> [Psat |-> waterOpts.usePsatPolynomials],
     computeOmega |-> waterOpts.bornModel # "None"]

\* waterGibbsModel with opt.model = DelaneyHelgeson1978: the polynomial, then
\* the override.
waterGibbsModel(T_cK, P_Pa, opt) ==
    maybeOverrideWithPsatGibbs(T_cK, P_Pa, opt,
                               gibbsDelaneyHelgeson1978_J_per_mol(T_cK, P_Pa))

\* waterElectroPropsModel of WaterDielectricModel.cpp.
waterElectroPropsModel(T_cK, P_Pa, wt, opts) ==
    dielectricPsatStep(T_cK, P_Pa, opts,
                       evaluatePrimaryModel(T_cK, P_Pa, wt, opts.primary))

\* compute_g
compute_g(T_cK, P_Pa, wt, opt) ==
    waterSolventFunctionDEW(T_cK, P_Pa, wt, opt.solvent)

\* compute_dgdP
compute_dgdP(T_cK, P_Pa, wt, g, opt) ==
    waterSolventFunctionDgdP_DEW(T_cK, P_Pa, wt, g, opt.solvent)

\* The arguments of the Born functions for the species of a call, with g
\* [0.001 A] and dgdP [1e-10 / Pa] as compute_g and compute_dgdP return them.
SpeciesBornInput(in, opt) ==
    LET With(g) ==
            [Z |-> in.charge, wref |-> in.wr,
             isHydrogenLike |-> opt.isHydrogenLike, P |-> in.P_Pa,
             maxPressureForVariation |-> opt.maxPressureForVariation,
             g |-> QuoTrunc(g, 100000000),
             dgdP |-> QuoTrunc(compute_dgdP(in.T_cK, in.P_Pa, in.wt, g, opt),
                               100000000)]
    IN  With(compute_g(in.T_cK, in.P_Pa, in.wt, opt))

\* The Born functions reach compute_g unless they return at the bypass or at
\* the test of the denominator.
ReachesComputeG(in, opt) ==
    /\ ~Bypass(SpeciesBornInput(in, opt))
    /\ BornDenom(SpeciesBornInput(in, opt)) # 0

\* WaterStateOptions of the direct calls.
DirectOptions ==
    { [dielectric |->
           [selector |-> "WaterDielectricModel", primary |-> "Franck1990",
            psatMode |-> "None",
            psatRelativeTolerance |-> default_psatRelativeTolerance,
            overrideQWithPsatFit |-> TRUE, usePsatPolynomials |-> FALSE],
       computeGibbs |-> cg,
       gibbs |-> [model |-> "DelaneyHelgeson1978", usePsatPolynomials |-> FALSE,
                  psatRelativeTolerance |-> default_psatRelativeTolerance],
       computeSolventG |-> cs,
       solvent |-> [Psat |-> ps],
       computeOmega |-> co] :
        cg \in BOOLEAN, cs \in BOOLEAN, co \in BOOLEAN, ps \in BOOLEAN }

\* WaterModelOptions of the species evaluations.
SpeciesWaterOptions ==
    { [usePsatPolynomials |-> u, psatRelTol |-> default_psatRelativeTolerance,
       dielectricModel |-> "Franck1990", gibbsModel |-> "DelaneyHelgeson1978",
       bornModel |-> b] :
        u \in BOOLEAN, b \in {"None", "DEW"} }

NoWaterOptions ==
    [usePsatPolynomials |-> FALSE, psatRelTol |-> default_psatRelativeTolerance,
     dielectricModel |-> "Franck1990", gibbsModel |-> "DelaneyHelgeson1978",
     bornModel |-> "None"]

\* wr and charge of the species: Na+, Cl- and a neutral species.
SpeciesParams ==
    {[wr |-> 614, charge |-> 1], [wr |-> 2703, charge |-> -1],
     [wr |-> 500, charge |-> 0]}

\* Pressure of the orchestrated calls [Pa]: 500 bar.
OrchestratedPressure == 50000000

\* The calls drawn.  The along-saturation solvent function is drawn at
\* 373.15 K.
OrchestratedCalls ==
    { c \in
        { [caller |-> "waterState", T_cK |-> T, P_Pa |-> OrchestratedPressure,
           wt |-> wt, opts |-> o, waterOpts |-> NoWaterOptions,
           wr |-> 0, charge |-> 0] :
            T \in GibbsTemperatures, wt \in ElectroThermoStates,
            o \in DirectOptions }
        \cup
        { [caller |-> "StandardThermoModelDEW", T_cK |-> T,
           P_Pa |-> OrchestratedPressure, wt |-> wt,
           opts |-> configureWaterStateOptions(w), waterOpts |-> w,
           wr |-> sp.wr, charge |-> sp.charge] :
            T \in GibbsTemperatures, wt \in ElectroThermoStates,
            w \in SpeciesWaterOptions, sp \in SpeciesParams } :
        c.opts.solvent.Psat => c.T_cK = 37315 }

InitWaterState ==
    /\ \E c \in OrchestratedCalls :
         ws = [phase |-> "first", in |-> c, first |-> c, mid |-> c,
               pc |-> "call", out |-> Idle, w |-> 0, wP |-> 0,
               rhoSolves |-> 0, gEvals |-> 0, res1 |-> Idle]
    /\ den = Idle
    /\ gib = Idle
    /\ born = Idle
    /\ el = Idle
    /\ psat = Idle
    /\ solv = Idle
    /\ tbl = Idle
    /\ lk = Idle
    /\ cmp = Idle
    /\ ev = Idle
    /\ fx = Idle
    /\ tz = Idle

\* WaterState ws;  (and, in the species evaluation, real w = 0.0, wP = 0.0)
WaterStateEnter ==
    /\ ws.pc = "call"
    /\ ws' = [ws EXCEPT !.pc = "thermo", !.out = WaterStateLocal(ws.out),
                        !.w = 0, !.wP = 0, !.rhoSolves = 0, !.gEvals = 0]
    /\ UNCHANGED <<den, gib, born, el, psat, solv, tbl, lk, cmp, ev, fx, tz>>

\* ws.thermo = waterThermoPropsModel(T, P, opts.thermo)
WaterStateThermo ==
    /\ ws.pc = "thermo"
    /\ ws' = [ws EXCEPT !.pc = "electro", !.out.thermo = ws.in.wt,
                        !.rhoSolves = @ + 1]
    /\ UNCHANGED <<den, gib, born, el, psat, solv, tbl, lk, cmp, ev, fx, tz>>

\* ws.electro = waterElectroPropsModel(T, P, ws.thermo, opts.dielectric)
WaterStateElectro ==
    /\ ws.pc = "electro"
    /\ ws' = [ws EXCEPT
                !.pc = "gibbs",
                !.out.electro = waterElectroPropsModel(ws.in.T_cK, ws.in.P_Pa,
                                                       ws.out.thermo,
                                                       ws.in.opts.dielectric)]
    /\ UNCHANGED <<den, gib, born, el, psat, solv, tbl, lk, cmp, ev, fx, tz>>

\* if (opts.computeGibbs) { ws.gibbs = waterGibbsModel(...); ws.hasGibbs = true; }
WaterStateGibbs ==
    /\ ws.pc = "gibbs"
    /\ ws' = IF ws.in.opts.computeGibbs
             THEN [ws EXCEPT
                     !.pc = "solvent",
                     !.out.gibbs = waterGibbsModel(ws.in.T_cK, ws.in.P_Pa,
                                                   ws.in.opts.gibbs),
                     !.out.hasGibbs = TRUE]
             ELSE [ws EXCEPT !.pc = "solvent"]
    /\ UNCHANGED <<den, gib, born, el, psat, solv, tbl, lk, cmp, ev, fx, tz>>

\* if (opts.computeSolventG) { ws.g_solv = ...; ws.dgdP = ...;
\* ws.hasSolventG = true; }
WaterStateSolventG ==
    /\ ws.pc = "solvent"
    /\ ws' = IF ws.in.opts.computeSolventG
             THEN LET With(g) ==
                          [ws EXCEPT
                             !.pc = "omega",
                             !.out.g_solv = g,
                             !.out.dgdP = waterSolventFunctionDgdP_DEW(
                                              ws.in.T_cK, ws.in.P_Pa,
                                              ws.out.thermo, g,
                                              ws.in.opts.solvent),
                             !.out.hasSolventG = TRUE,
                             !.gEvals = @ + 1]
                  IN  With(waterSolventFunctionDEW(ws.in.T_cK, ws.in.P_Pa,
                                                   ws.out.thermo,
                                                   ws.in.opts.solvent))
             ELSE [ws EXCEPT !.pc = "omega"]
    /\ UNCHANGED <<den, gib, born, el, psat, solv, tbl, lk, cmp, ev, fx, tz>>

\* if (opts.computeOmega) { ws.omega = 0.0; ws.domega_dP = 0.0;
\* ws.hasOmega = false; }  return ws;
WaterStateOmega ==
    /\ ws.pc = "omega"
    /\ ws' = IF ws.in.opts.computeOmega
             THEN [ws EXCEPT !.pc = "returned", !.out.omega = 0,
                             !.out.domega_dP = 0, !.out.hasOmega = FALSE]
             ELSE [ws EXCEPT !.pc = "returned"]
    /\ UNCHANGED <<den, gib, born, el, psat, solv, tbl, lk, cmp, ev, fx, tz>>

\* A direct call of waterState ends with its return.
WaterStateReturn ==
    /\ ws.pc = "returned"
    /\ ws.in.caller = "waterState"
    /\ ws' = [ws EXCEPT !.pc = "done"]
    /\ UNCHANGED <<den, gib, born, el, psat, solv, tbl, lk, cmp, ev, fx, tz>>

\* if (waterOpts.bornModel != WaterBornModel::None)
\*     w = waterBornOmegaDEW(T, P, wt, wr, charge, omegaOpts);
SpeciesBornOmega ==
    /\ ws.pc = "returned"
    /\ ws.in.caller = "StandardThermoModelDEW"
    /\ ws' = IF ws.in.waterOpts.bornModel # "None"
             THEN [ws EXCEPT
                     !.pc = "wP",
                     !.w = waterBornOmegaDEW(
                               SpeciesBornInput(ws.in, DefaultOmegaOptions)).value,
                     !.gEvals = IF ReachesComputeG(ws.in, DefaultOmegaOptions)
                                THEN @ + 1 ELSE @]
             ELSE [ws EXCEPT !.pc = "done"]
    /\ UNCHANGED <<den, gib, born, el, psat, solv, tbl, lk, cmp, ev, fx, tz>>

\*     wP = waterBornDOmegaDP_DEW(T, P, wt, wr, charge, omegaOpts);
SpeciesBornDOmegaDP ==
    /\ ws.pc = "wP"
    /\ ws' = [ws EXCEPT
                !.pc = "done",
                !.wP = waterBornDOmegaDP_DEW(
                           SpeciesBornInput(ws.in, DefaultOmegaOptions)).value,
                !.gEvals = IF ReachesComputeG(ws.in, DefaultOmegaOptions)
                           THEN @ + 1 ELSE @]
    /\ UNCHANGED <<den, gib, born, el, psat, solv, tbl, lk, cmp, ev, fx, tz>>

\* What the caller holds after a call.
OrchestratedResult == [out |-> ws.out, w |-> ws.w, wP |-> ws.wP]

\* The caller calls again: after the first call with any inputs, after that
\* with the inputs of the first call.
NextCall ==
    /\ ws.pc = "done"
    /\ \/ /\ ws.phase = "first"
          /\ \E c \in OrchestratedCalls :
               ws' = [ws EXCEPT !.phase = "between", !.in = c, !.mid = c,
                                !.pc = "call", !.res1 = OrchestratedResult]
       \/ /\ ws.phase = "between"
          /\ ws' = [ws EXCEPT !.phase = "repeat", !.in = ws.first,
                              !.pc = "call"]
    /\ UNCHANGED <<den, gib, born, el, psat, solv, tbl, lk, cmp, ev, fx, tz>>

NextWaterState ==
    \/ WaterStateEnter
    \/ WaterStateThermo
    \/ WaterStateElectro
    \/ WaterStateGibbs
    \/ WaterStateSolventG
    \/ WaterStateOmega
    \/ WaterStateReturn
    \/ SpeciesBornOmega
    \/ SpeciesBornDOmegaDP
    \/ NextCall

SpecWaterState == InitWaterState /\ [][NextWaterState]_vars

\* waterState has returned.
WaterStateReturned == ws.pc \in {"returned", "wP", "done"}

\* C17: the water state returned contains each optional output (Gibbs
\* energy; g with dgdP; Born omega with domega/dP) computed and flagged
\* present exactly when the caller requested it, and flagged absent with its
\* value left at zero otherwise.
C17_AsStated ==
    WaterStateReturned =>
        /\ ws.out.hasGibbs = ws.in.opts.computeGibbs
        /\ ws.out.hasSolventG = ws.in.opts.computeSolventG
        /\ ws.out.hasOmega = ws.in.opts.computeOmega
        /\ ~ws.in.opts.computeGibbs => ws.out.gibbs = 0
        /\ ~ws.in.opts.computeSolventG => (ws.out.g_solv = 0 /\ ws.out.dgdP = 0)
        /\ ~ws.in.opts.computeOmega => (ws.out.omega = 0 /\ ws.out.domega_dP = 0)

\* A first call that requested all three outputs has returned with the
\* Gibbs energy and g flagged present and omega flagged absent, at zero.
C17_Witness ==
    /\ ws.phase = "first"
    /\ ws.pc = "returned"
    /\ ws.in.opts.computeGibbs
    /\ ws.in.opts.computeSolventG
    /\ ws.in.opts.computeOmega
    /\ ws.out.hasGibbs
    /\ ws.out.gibbs = waterGibbsModel(ws.in.T_cK, ws.in.P_Pa, ws.in.opts.gibbs)
    /\ ws.out.hasSolventG
    /\ ~ws.out.hasOmega
    /\ ws.out.omega = 0

\* C18: within one orchestrated evaluation (water state, then the species
\* standard-state evaluation) the density at (T,P) is solved once and g(T,P)
\* is evaluated once.
C18_AsStated ==
    (ws.pc = "done" /\ ws.in.caller = "StandardThermoModelDEW")
        => (ws.rhoSolves = 1 /\ ws.gEvals = 1)

\* A species evaluation of a charged species with the Born model enabled is
\* complete: one density solve, and g evaluated by waterState, by
\* waterBornOmegaDEW and by waterBornDOmegaDP_DEW.
C18_Witness ==
    /\ ws.phase = "first"
    /\ ws.pc = "done"
    /\ ws.in.caller = "StandardThermoModelDEW"
    /\ ws.in.waterOpts.bornModel = "DEW"
    /\ ws.in.charge # 0
    /\ ws.rhoSolves = 1
    /\ ws.gEvals = 3

NumThreads == 3

\* Number of calls each thread makes.
MaxCallsPerThread == 2

Threads == 1 .. NumThreads

\* The database file: unreadable (YAML::LoadFile throws), without a Species
\* map, or a list of species entries, each complete ("ok"), without one of
\* Name, Charge, HKF.wref ("skip"), or with a value that does not convert
\* ("bad": as<double>() throws).
DatabaseFiles ==
    {[kind |-> "unreadable", entries |-> <<>>],
     [kind |-> "nospecies", entries |-> <<>>],
     [kind |-> "species", entries |-> <<"ok", "ok">>],
     [kind |-> "species", entries |-> <<"skip", "ok">>],
     [kind |-> "species", entries |-> <<"skip", "skip">>],
     [kind |-> "species", entries |-> <<"ok", "bad">>]}

\* The table a load of the file leaves when it completes: the names (here
\* the positions) of the complete entries.
LoadedTable(file) ==
    {i \in 1 .. Len(file.entries) : file.entries[i] = "ok"}

\* The loader runs to its end on this file.
Loads(file) ==
    /\ file.kind = "species"
    /\ \A i \in 1 .. Len(file.entries) : file.entries[i] # "bad"
    /\ LoadedTable(file) # {}

\* A caller may execute the loader whenever the flag is not set, even while
\* another caller is executing it (a test of a plain flag without a lock).
MayExecuteUnlocked(flag) ==
    flag # "done"

\* std::call_once: a caller executes the loader only when the flag is not
\* set and no other caller is executing it.
MayExecute(flag) ==
    flag = "idle"

NewThread ==
    [pc |-> "out", calls |-> MaxCallsPerThread, i |-> 0,
     returned |-> FALSE, got |-> {}, threw |-> FALSE]

InitTable ==
    /\ tbl \in [file : DatabaseFiles, flag : {"idle"}, table : {{}},
                completions : {0}, writtenAfterLoad : {FALSE},
                returnedEarly : {FALSE}, contended : {FALSE}, thr : {[t \in Threads |-> NewThread]}]
    /\ den = Idle
    /\ gib = Idle
    /\ born = Idle
    /\ el = Idle
    /\ psat = Idle
    /\ solv = Idle
    /\ ws = Idle
    /\ lk = Idle
    /\ cmp = Idle
    /\ ev = Idle
    /\ fx = Idle
    /\ tz = Idle

\* The flag set although the loader threw (a variant for comparison: a
\* plain "loaded" flag assigned before the loader runs).
ThrownFlagSet(t) ==
    [tbl EXCEPT !.thr[t].pc = "out", !.thr[t].threw = TRUE, !.flag = "done"]

\* The exception leaves call_once and the accessor: the flag stays unset.
Thrown(t) ==
    [tbl EXCEPT
       !.thr[t].pc = "out",
       !.thr[t].threw = TRUE,
       !.flag = IF tbl.flag = "done" THEN "done"
                ELSE IF \E u \in Threads \ {t} : tbl.thr[u].pc = "load"
                THEN "running" ELSE "idle"]

\* A thread calls speciesBornTable() and arrives at std::call_once.
TableCall(t) ==
    /\ tbl.thr[t].pc = "out"
    /\ tbl.thr[t].calls > 0
    /\ tbl' = [tbl EXCEPT !.thr[t].pc = "once", !.thr[t].calls = @ - 1]
    /\ UNCHANGED <<den, gib, born, el, psat, solv, ws, lk, cmp, ev, fx, tz>>

\* call_once with the flag set: returns at once.
TablePassive(t) ==
    /\ tbl.thr[t].pc = "once"
    /\ tbl.flag = "done"
    /\ tbl' = [tbl EXCEPT !.thr[t].pc = "return"]
    /\ UNCHANGED <<den, gib, born, el, psat, solv, ws, lk, cmp, ev, fx, tz>>

\* call_once with the flag unset: this caller executes the loader.
TableActive(t) ==
    /\ tbl.thr[t].pc = "once"
    /\ MayExecute(tbl.flag)
    /\ tbl' = [tbl EXCEPT !.thr[t].pc = "load", !.thr[t].i = 0,
                          !.flag = "running"]
    /\ UNCHANGED <<den, gib, born, el, psat, solv, ws, lk, cmp, ev, fx, tz>>

\* YAML::LoadFile(path) and the test of root["Species"].
TableLoadFile(t) ==
    /\ tbl.thr[t].pc = "load"
    /\ tbl.thr[t].i = 0
    /\ tbl' = IF tbl.file.kind # "species" THEN Thrown(t)
              ELSE [tbl EXCEPT !.thr[t].i = 1]
    /\ UNCHANGED <<den, gib, born, el, psat, solv, ws, lk, cmp, ev, fx, tz>>

\* One pass of the loop over the species: continue, throw, or emplace.
TableLoadEntry(t) ==
    /\ tbl.thr[t].pc = "load"
    /\ tbl.thr[t].i \in 1 .. Len(tbl.file.entries)
    /\ tbl' = IF tbl.file.entries[tbl.thr[t].i] = "bad" THEN Thrown(t)
              ELSE IF tbl.file.entries[tbl.thr[t].i] = "skip"
              THEN [tbl EXCEPT !.thr[t].i = @ + 1]
              ELSE [tbl EXCEPT
                      !.thr[t].i = @ + 1,
                      !.table = @ \cup {tbl.thr[t].i},
                      !.writtenAfterLoad = @ \/ tbl.completions > 0,
                      !.contended =
                          @ \/ \A u \in Threads \ {t} :
                                  /\ tbl.thr[u].pc = "once"
                                  /\ tbl.thr[u].calls = MaxCallsPerThread - 1]
    /\ UNCHANGED <<den, gib, born, el, psat, solv, ws, lk, cmp, ev, fx, tz>>

\* if (table.empty()) throw; otherwise the loader returns and call_once sets
\* the flag.
TableLoadEnd(t) ==
    /\ tbl.thr[t].pc = "load"
    /\ tbl.thr[t].i = Len(tbl.file.entries) + 1
    /\ tbl' = IF tbl.table = {} THEN Thrown(t)
              ELSE [tbl EXCEPT !.thr[t].pc = "return", !.flag = "done",
                               !.completions = @ + 1]
    /\ UNCHANGED <<den, gib, born, el, psat, solv, ws, lk, cmp, ev, fx, tz>>

\* return table;
TableReturn(t) ==
    /\ tbl.thr[t].pc = "return"
    /\ tbl' = [tbl EXCEPT
                 !.thr[t].pc = "out",
                 !.thr[t].returned = TRUE,
                 !.thr[t].got = tbl.table,
                 !.returnedEarly = @ \/ tbl.completions = 0
                                     \/ \E u \in Threads : tbl.thr[u].pc = "load"]
    /\ UNCHANGED <<den, gib, born, el, psat, solv, ws, lk, cmp, ev, fx, tz>>

NextTable ==
    \E t \in Threads :
        \/ TableCall(t)
        \/ TablePassive(t)
        \/ TableActive(t)
        \/ TableLoadFile(t)
        \/ TableLoadEntry(t)
        \/ TableLoadEnd(t)
        \/ TableReturn(t)

SpecTable == InitTable /\ [][NextTable]_vars

\* Every thread has made its calls and is outside the accessor.
AllCallsMade ==
    \A t \in Threads : tbl.thr[t].pc = "out" /\ tbl.thr[t].calls = 0

\* C19: under any interleaving of concurrent first accesses, the load runs
\* to successful completion exactly once (never twice, and once when the
\* calls are over, on a file the loader can complete on); no accessor
\* returns the table before that load has completed (what it returns is the
\* loaded table); and the table is never written again afterwards.
C19_OneShotLoad ==
    /\ tbl.completions <= 1
    /\ (AllCallsMade /\ Loads(tbl.file)) => tbl.completions = 1
    /\ ~tbl.returnedEarly
    /\ \A t \in Threads :
         tbl.thr[t].returned =>
             (tbl.completions = 1 /\ tbl.thr[t].got = LoadedTable(tbl.file))
    /\ ~tbl.writtenAfterLoad
    /\ tbl.completions = 1 => tbl.table = LoadedTable(tbl.file)

\* Every thread was inside call_once on its first call while one of them
\* was writing the table, from a file with a skipped entry, and all have
\* returned the loaded table, the first time and again.
C19_Witness ==
    /\ AllCallsMade
    /\ tbl.contended
    /\ tbl.file.entries = <<"skip", "ok">>
    /\ tbl.completions = 1
    /\ \A t \in Threads : tbl.thr[t].returned /\ ~tbl.thr[t].threw
                          /\ tbl.thr[t].got = {2}

(***************************************************************************)
(* Species lookup: getSpeciesParams on a loaded table.  A name is a        *)
(* sequence of characters; the table maps names to SpeciesBornParams.      *)
(***************************************************************************)

\* Longest raw name drawn.
MaxNameLen == 3

NameChars == {"\"", "'", "N", "a"}

QuoteChars == {"\"", "'"}

RawNames == UNION {[1 .. n -> NameChars] : n \in 0 .. MaxNameLen}

\* strip_quotes: erase a leading quote, then pop a trailing quote.
strip_quotes(s) ==
    LET Back(r) ==
            IF r # <<>> /\ r[Len(r)] \in QuoteChars
            THEN SubSeq(r, 1, Len(r) - 1) ELSE r
    IN  Back(IF s # <<>> /\ s[1] \in QuoteChars THEN Tail(s) ELSE s)

\* Loaded tables: Na and N, and a table whose only key starts with a quote.
SpeciesTables ==
    {[n \in {<<"N", "a">>, <<"N">>} |->
         [Z |-> Len(n), wref_J_mol |-> 614 * Len(n), isHydrogenLike |-> FALSE]],
     [n \in {<<"'", "a">>} |->
         [Z |-> -1, wref_J_mol |-> 2703, isHydrogenLike |-> FALSE]]}

\* What a SpeciesBornParams holds when nothing was assigned to it.
DefaultSpeciesParams == [Z |-> 0, wref_J_mol |-> 0, isHydrogenLike |-> FALSE]

\* A lookup that answers a missing name with default parameters.
findOrDefault(table, name) ==
    IF name \in DOMAIN table
    THEN [outcome |-> "returned", params |-> table[name], what |-> <<>>]
    ELSE [outcome |-> "returned", params |-> DefaultSpeciesParams, what |-> <<>>]

\* auto it = table.find(name); if (it == table.end()) throw
\* std::runtime_error("Species not found in dew2024-aqueous.yaml: " + name);
\* return it->second;
findOrThrow(table, name) ==
    IF name \in DOMAIN table
    THEN [outcome |-> "returned", params |-> table[name], what |-> <<>>]
    ELSE [outcome |-> "threw", params |-> DefaultSpeciesParams,
          what |-> <<"Species not found in dew2024-aqueous.yaml: ", name>>]

InitLookup ==
    /\ lk \in [csvNameRaw : RawNames, table : SpeciesTables, pc : {"call"},
               name : {<<>>},
               res : {[outcome |-> "none", params |-> DefaultSpeciesParams,
                       what |-> <<>>]}]
    /\ den = Idle
    /\ gib = Idle
    /\ born = Idle
    /\ el = Idle
    /\ psat = Idle
    /\ solv = Idle
    /\ ws = Idle
    /\ tbl = Idle
    /\ cmp = Idle
    /\ ev = Idle
    /\ fx = Idle
    /\ tz = Idle

\* std::string name = strip_quotes(csvNameRaw);
LookupStrip ==
    /\ lk.pc = "call"
    /\ lk' = [lk EXCEPT !.pc = "find", !.name = strip_quotes(lk.csvNameRaw)]
    /\ UNCHANGED <<den, gib, born, el, psat, solv, ws, tbl, cmp, ev, fx, tz>>

\* table.find(name), then the throw or the return.
LookupFind ==
    /\ lk.pc = "find"
    /\ lk' = [lk EXCEPT !.pc = "done", !.res = findOrThrow(lk.table, lk.name)]
    /\ UNCHANGED <<den, gib, born, el, psat, solv, ws, tbl, cmp, ev, fx, tz>>

NextLookup == LookupStrip \/ LookupFind

SpecLookup == InitLookup /\ [][NextLookup]_vars

\* C21: looking up a species name that is not in the loaded table raises
\* the 'species not found' error naming the species, and never returns zero
\* or default parameters; a name in the table returns its parameters.
C21_NotFoundRaises ==
    lk.pc = "done" =>
        IF strip_quotes(lk.csvNameRaw) \in DOMAIN lk.table
        THEN /\ lk.res.outcome = "returned"
             /\ lk.res.params = lk.table[strip_quotes(lk.csvNameRaw)]
        ELSE /\ lk.res.outcome = "threw"
             /\ lk.res.what = <<"Species not found in dew2024-aqueous.yaml: ",
                                strip_quotes(lk.csvNameRaw)>>

\* A quoted name whose stripped form is missing from the table was looked
\* up and the error, naming the stripped form, was raised.
C21_Witness ==
    /\ lk.pc = "done"
    /\ lk.csvNameRaw = <<"\"", "a", "\"">>
    /\ lk.name = <<"a">>
    /\ lk.name \notin DOMAIN lk.table
    /\ lk.res.outcome = "threw"
    /\ lk.res.what[2] = <<"a">>

(***************************************************************************)
(* The table of the 16-point Gauss-Legendre rule.                          *)
(***************************************************************************)

\* The published abscissae of the 16-point rule on [-1, 1], in 1e-6
\* (0.0950125098, 0.2816035508, 0.4580167777, 0.6178762444, 0.7554044084,
\* 0.8656312024, 0.9445750231, 0.9894009350).
PublishedNodes16 ==
    << -989401, -944575, -865631, -755404, -617876, -458017, -281604, -95013,
        95013,  281604,  458017,  617876,  755404,  865631,  944575,  989401 >>

\* The published weights, in 1e-6 (0.0271524594, 0.0622535239, 0.0951585117,
\* 0.1246289713, 0.1495959888, 0.1691565194, 0.1826034150, 0.1894506105).
PublishedWeights16 ==
    << 27152, 62254, 95159, 124629, 149596, 169157, 182603, 189451,
       189451, 182603, 169157, 149596, 124629, 95159, 62254, 27152 >>

\* seg_integral of one segment for an integrand that is Vm at every node:
\* the sum over i of weights[i] * Vm  [1e-6 of the unit of Vm].
RECURSIVE ConstantSegIntegral(_, _)
ConstantSegIntegral(Vm, i) ==
    IF i > GaussLegendre16_N THEN 0
    ELSE GaussLegendre16_weights[i] * Vm + ConstantSegIntegral(Vm, i + 1)

\* C22: the node and weight table of the 16-point method is the canonical
\* rule on [-1, 1]: the nodes are the published abscissae, symmetric about
\* zero; the weights are the published weights, positive, symmetric and
\* summing to 2 (to the rounding of sixteen entries, half a unit each), so
\* that a constant integrand over a segment integrates to the constant
\* times the segment width.
C22_AsStated ==
    gib.ran = "GaussLegendre16" =>
        /\ GaussLegendre16_nodes = PublishedNodes16
        /\ GaussLegendre16_weights = PublishedWeights16
        /\ \A i \in 1 .. GaussLegendre16_N :
             /\ GaussLegendre16_nodes[i]
                  = -GaussLegendre16_nodes[GaussLegendre16_N + 1 - i]
             /\ GaussLegendre16_weights[i]
                  = GaussLegendre16_weights[GaussLegendre16_N + 1 - i]
             /\ GaussLegendre16_weights[i] > 0
        /\ Abs(ConstantSegIntegral(1, 1) - 2000000) <= 8
        /\ \A Vm \in {1, 18, 100} :
             Abs(ConstantSegIntegral(Vm, 1) - 2000000 * Vm) <= 8 * Vm

\* The 16-point method has run over a range above 1000 bar, evaluating 16
\* nodes per segment with the table.
C22_Witness ==
    /\ gib.pc = "total"
    /\ gib.ran = "GaussLegendre16"
    /\ gib.in.P_Pa > P_start_Pa
    /\ gib.evals >= GaussLegendre16_N
    /\ GaussLegendre16_nodes[6] # PublishedNodes16[6]
    /\ ConstantSegIntegral(1, 1) = 1999972

(***************************************************************************)
(* The integration methods side by side: for one (T, P) the Gibbs model of *)
(* DEW is called once per method with the default options, as the          *)
(* comparison loop of WaterDEW.test.cxx does, and the results are held     *)
(* together.                                                               *)
(***************************************************************************)

\* Pressures [Pa] of the comparison: 10 and 15 kbar.
ComparePressures == {1000000000, 1500000000}

\* The methods in the order in which they are called.
CompareOrder == << "Trapezoidal", "Simpson", "GaussLegendre16", "AdaptiveSimpson" >>

\* Largest number of loop passes taken in one step of the comparison.
ChunkSteps == 250

\* WaterThermoModelOptions of the comparison: ZD05.
CompareThermo ==
    CHOOSE o \in ThermoOptions :
        o.eosModel = "ZhangDuan2005" /\ o.zd05DefaultTolerance = zd05_default_error_bar

\* WaterGibbsModelOptions with its default members and the method chosen.
DefaultGibbsOptions(T_cK, P_Pa, thermo, method) ==
    GibbsCall(T_cK, P_Pa, thermo, FALSE, default_densityTolerance,
              [useExcelIntegration |-> FALSE, integrationMethod |-> method,
               integrationSteps |-> default_integrationSteps,
               adaptiveIntegrationTolerance |-> default_adaptiveIntegrationTolerance,
               maxAdaptiveSubdivisions |-> default_maxAdaptiveSubdivisions])

\* The number of passes of the loop that opt selects: nsteps of the
\* trapezoidal rule and of simpsonRule (made even), nsegments of
\* gaussLegendre16.
loopCount(opt) ==
    IF opt.integrationMethod = "GaussLegendre16"
    THEN Max(1, opt.integrationSteps \div 16)
    ELSE IF opt.integrationMethod = "Simpson" /\ opt.integrationSteps % 2 # 0
    THEN opt.integrationSteps + 1
    ELSE opt.integrationSteps

\* dP, h or segment_width.
loopWidth(opt) == (opt.P_Pa - P_start_Pa) \div loopCount(opt)

\* The state of the selected method at the entry of its (first) loop.
loopEntry(opt) ==
    LET eS == MolarVolume(opt.T_cK, P_start_Pa, thermoWithTol(opt))
    IN  IF opt.integrationMethod = "Trapezoidal"
        THEN [i |-> 1, Vm_prev |-> eS.Vm, G_int |-> 0, evals |-> 1, tols |-> {eS.tol}]
        ELSE IF opt.integrationMethod = "Simpson"
        THEN [i |-> 1, sum |-> eS.Vm, evals |-> 1, tols |-> {eS.tol}]
        ELSE IF opt.integrationMethod = "GaussLegendre16"
        THEN [seg |-> 0, integral |-> 0, evals |-> 0, tols |-> {}]
        ELSE adaptiveSimpson([in |-> opt, pc |-> "call", G_int |-> 0, evals |-> 0,
                              tols |-> {}, stack |-> << >>, calls |-> 0,
                              maxCallDepth |-> -1, dropped |-> 0, last |-> NoCall])

\* The loop has ended (for simpsonRule: the loop over the even nodes).
loopDone(opt, loop, a) ==
    IF loop = "Trapezoidal" THEN a.i > loopCount(opt)
    ELSE IF loop = "Simpson" THEN FALSE
    ELSE IF loop = "SimpsonEven" THEN a.i >= loopCount(opt)
    ELSE IF loop = "GaussLegendre16" THEN a.seg >= loopCount(opt)
    ELSE a.stack = << >>

\* Up to `passes` passes of the running loop; simpsonRule goes from its
\* loop over the odd nodes (weight 4) to the one over the even nodes
\* (weight 2), and the adaptive helper runs one pending call.
loopSteps(opt, loop, a, passes) ==
    IF loop = "Trapezoidal"
    THEN [loop |-> loop,
          a |-> TrapezoidalLoop(opt.T_cK, P_start_Pa, loopWidth(opt), loopCount(opt),
                                thermoWithTol(opt), a, passes)]
    ELSE IF loop = "Simpson"
    THEN IF a.i >= loopCount(opt)
         THEN [loop |-> "SimpsonEven", a |-> [a EXCEPT !.i = 2]]
         ELSE [loop |-> loop,
               a |-> SimpsonLoop(opt.T_cK, P_start_Pa, loopWidth(opt), loopCount(opt),
                                 4, thermoWithTol(opt), a, passes)]
    ELSE IF loop = "SimpsonEven"
    THEN [loop |-> loop,
          a |-> SimpsonLoop(opt.T_cK, P_start_Pa, loopWidth(opt), loopCount(opt),
                            2, thermoWithTol(opt), a, passes)]
    ELSE IF loop = "GaussLegendre16"
    THEN [loop |-> loop,
          a |-> GaussSegmentLoop(opt.T_cK, P_start_Pa, loopWidth(opt), loopCount(opt),
                                 thermoWithTol(opt), a, passes \div GaussLegendre16_N)]
    ELSE [loop |-> loop, a |-> adaptiveSimpsonsHelper(a)]

\* G_int_J after the loop  [0.001 J/mol].
loopResult(opt, loop, a) ==
    IF loop = "SimpsonEven"
    THEN MulDiv(loopWidth(opt),
                a.sum + MolarVolume(opt.T_cK, opt.P_Pa, thermoWithTol(opt)).Vm,
                3000000)
    ELSE IF loop = "GaussLegendre16" THEN a.integral
    ELSE a.G_int

\* The largest pairwise difference of the results held.
MaxPairwiseDiff(G) ==
    LET vals == { G[i] : i \in DOMAIN G }
    IN  IF vals = {} THEN 0
        ELSE (CHOOSE x \in vals : \A y \in vals : y <= x)
               - (CHOOSE x \in vals : \A y \in vals : x <= y)

\* The options of the call in progress.
CompareOptions ==
    DefaultGibbsOptions(cmp.T_cK, cmp.P_Pa, CompareThermo,
                        CompareOrder[Len(cmp.G) + 1])

InitCompare ==
    /\ cmp \in [T_cK : GibbsTemperatures, P_Pa : ComparePressures,
                pc : {"methods"}, loop : {"none"}, a : {NoIntegral},
                G : {<< >>}, max_diff : {0}]
    /\ den = Idle
    /\ gib = Idle
    /\ born = Idle
    /\ el = Idle
    /\ psat = Idle
    /\ solv = Idle
    /\ ws = Idle
    /\ tbl = Idle
    /\ lk = Idle
    /\ ev = Idle
    /\ fx = Idle
    /\ tz = Idle

\* The loop over the methods calls the Gibbs model with the next method;
\* above 1000 bar the call reaches the integration by that method.
CompareCall ==
    /\ cmp.pc = "methods"
    /\ Len(cmp.G) < Len(CompareOrder)
    /\ ~gibbsDewEarlyReturn(cmp.T_cK, cmp.P_Pa).returns
    /\ cmp' = [cmp EXCEPT !.pc = "loop",
                          !.loop = CompareOptions.integrationMethod,
                          !.a = loopEntry(CompareOptions)]
    /\ UNCHANGED <<den, gib, born, el, psat, solv, ws, tbl, lk, ev, fx, tz>>

\* The running method takes its next passes.
CompareSteps ==
    /\ cmp.pc = "loop"
    /\ ~loopDone(CompareOptions, cmp.loop, cmp.a)
    /\ \E r \in {loopSteps(CompareOptions, cmp.loop, cmp.a, ChunkSteps)} :
          cmp' = [cmp EXCEPT !.loop = r.loop, !.a = r.a]
    /\ UNCHANGED <<den, gib, born, el, psat, solv, ws, tbl, lk, ev, fx, tz>>

\* The method returns: G = G1k_cal * 4.184 + G_int_J; G_results.push_back(G).
CompareReturn ==
    /\ cmp.pc = "loop"
    /\ loopDone(CompareOptions, cmp.loop, cmp.a)
    /\ cmp' = [cmp EXCEPT
                 !.pc = "methods", !.loop = "none", !.a = NoIntegral,
                 !.G = Append(cmp.G,
                          cal_to_J(GAtOneKb_cal_per_mol(toCelsius(cmp.T_cK)))
                            + loopResult(CompareOptions, cmp.loop, cmp.a))]
    /\ UNCHANGED <<den, gib, born, el, psat, solv, ws, tbl, lk, ev, fx, tz>>

\* After the loop over the methods: max_diff over all pairs.
CompareDiff ==
    /\ cmp.pc = "methods"
    /\ Len(cmp.G) = Len(CompareOrder)
    /\ cmp' = [cmp EXCEPT !.pc = "compared", !.max_diff = MaxPairwiseDiff(cmp.G)]
    /\ UNCHANGED <<den, gib, born, el, psat, solv, ws, tbl, lk, ev, fx, tz>>

NextCompare ==
    \/ CompareCall
    \/ CompareSteps
    \/ CompareReturn
    \/ CompareDiff

SpecCompare == InitCompare /\ [][NextCompare]_vars

\* 100 J/mol  [0.001 J/mol]
AgreementBound == 100000

\* C23: at every (T, P) with P between 1000 and 60,000 bar the four
\* integration methods at their default resolutions return water Gibbs
\* energies that agree pairwise to within 100 J/mol.
C23_AsStated ==
    cmp.pc = "compared" => cmp.max_diff <= AgreementBound

\* At 573.15 K and 15 kbar with the ZD05 equation of state the four methods
\* have run at 5000 steps, 312 segments and tolerance 0.1, the three
\* fixed-step results lie within 5 J/mol of each other and the adaptive
\* result lies more than 100 J/mol above them.
C23_Witness ==
    /\ cmp.pc = "compared"
    /\ cmp.T_cK = 57315
    /\ cmp.P_Pa = 1500000000
    /\ Len(cmp.G) = 4
    /\ MaxPairwiseDiff(SubSeq(cmp.G, 1, 3)) <= 5000
    /\ cmp.G[4] - cmp.G[1] > AgreementBound

(***************************************************************************)
(* The evaluation function of StandardThermoModelDEW for one species at    *)
(* one (T, P): configureWaterStateOptions, waterState, the Born omega of   *)
(* the species, its temperature derivatives, and the standard properties.  *)
(* The parameters of the species are wr and charge; `hydrogen` marks the   *)
(* parameter sets that stand for the hydrogen ion (the parameters carry no *)
(* name and no flag).  The dielectric stage of waterState returns either   *)
(* the properties of the primary model at the density given, or the record *)
(* with Z = Q = 0 that the formulations return where epsilon evaluates to  *)
(* 0.                                                                      *)
(***************************************************************************)

\* wr, charge: the hydrogen ion with wr = 0 and with a non-zero wr, Na+, Cl-
\* and a neutral species.
EvaluatedSpecies ==
    {[wr |-> 0, charge |-> 1, hydrogen |-> TRUE],
     [wr |-> 614, charge |-> 1, hydrogen |-> TRUE],
     [wr |-> 614, charge |-> 1, hydrogen |-> FALSE],
     [wr |-> 2703, charge |-> -1, hydrogen |-> FALSE],
     [wr |-> 500, charge |-> 0, hydrogen |-> FALSE]}

\* Pressures [Pa] of the evaluations: 500 bar, and 6500 bar, above the
\* cutoff of the Born model.
EvaluationPressures == {OrchestratedPressure, 650000000}

\* we.bornZ = 0.0; we.bornQ = 0.0  (the branch taken when eps == 0.0)
ZeroEpsilonProps == [epsilon |-> 0, epsilonP |-> 0, bornZ |-> 0, bornQ |-> 0]

\* The evaluations drawn.  The along-saturation solvent function is drawn
\* at 373.15 K.
SpeciesEvaluations ==
    { c \in [T_cK : GibbsTemperatures, P_Pa : EvaluationPressures,
             wt : ElectroThermoStates, waterOpts : SpeciesWaterOptions,
             species : EvaluatedSpecies, epsZero : BOOLEAN] :
        c.waterOpts.usePsatPolynomials => c.T_cK = 37315 }

\* The near-saturation switch of each component as the options built by
\* configureWaterStateOptions give it to waterState.
waterStateOverrides(wsOpts) ==
    [density    |-> wsOpts.thermo.usePsatPolynomials,
     dielectric |-> wsOpts.dielectric.psatMode # "None",
     gibbs      |-> wsOpts.gibbs.usePsatPolynomials,
     solvent    |-> wsOpts.solvent.Psat]

\* -w * Y / Z and -w * X / Z with Y = bornY and X = bornX, which the
\* dielectric formulations set to 0.0: 0/0 is NaN, else the quotient.
bornQuotient(w, YX, Z) ==
    IF Z = 0 THEN "NaN" ELSE QuoTrunc(-(w * YX), Z)

InitSpecies ==
    /\ \E c \in SpeciesEvaluations :
         ev = [in |-> c, pc |-> "configure", wsOpts |-> Idle, we |-> NoProps,
               overrides |-> Idle, omegaSolventPsat |-> FALSE,
               omegaCalled |-> FALSE, w |-> 0, wP |-> 0, wT |-> 0, wTT |-> 0,
               path |-> "none", divisions |-> 0, zeroDivisions |-> 0]
    /\ den = Idle
    /\ gib = Idle
    /\ born = Idle
    /\ el = Idle
    /\ psat = Idle
    /\ solv = Idle
    /\ ws = Idle
    /\ tbl = Idle
    /\ lk = Idle
    /\ cmp = Idle
    /\ fx = Idle
    /\ tz = Idle

\* const auto wsOpts = configureWaterStateOptions(waterOpts);
SpeciesConfigure ==
    /\ ev.pc = "configure"
    /\ ev' = [ev EXCEPT !.pc = "waterState",
                        !.wsOpts = configureWaterStateOptions(ev.in.waterOpts)]
    /\ UNCHANGED <<den, gib, born, el, psat, solv, ws, tbl, lk, cmp, fx, tz>>

\* const auto ws = waterState(T, P, wsOpts);  we = ws.electro
SpeciesWaterState ==
    /\ ev.pc = "waterState"
    /\ ev' = [ev EXCEPT
                !.pc = "omega",
                !.overrides = waterStateOverrides(ev.wsOpts),
                !.we = IF ev.in.epsZero THEN ZeroEpsilonProps
                       ELSE waterElectroPropsModel(ev.in.T_cK, ev.in.P_Pa,
                                                   ev.in.wt, ev.wsOpts.dielectric)]
    /\ UNCHANGED <<den, gib, born, el, psat, solv, ws, tbl, lk, cmp, fx, tz>>

\* if (waterOpts.bornModel != WaterBornModel::None) {
\*     WaterBornOmegaOptions omegaOpts;
\*     w = waterBornOmegaDEW(...);  wP = waterBornDOmegaDP_DEW(...);
SpeciesOmega ==
    /\ ev.pc = "omega"
    /\ ev' = IF ev.in.waterOpts.bornModel # "None"
             THEN LET arg == SpeciesBornInput(
                                 [T_cK |-> ev.in.T_cK, P_Pa |-> ev.in.P_Pa,
                                  wt |-> ev.in.wt, wr |-> ev.in.species.wr,
                                  charge |-> ev.in.species.charge],
                                 DefaultOmegaOptions)
                  IN  [ev EXCEPT
                         !.pc = "omegaT",
                         !.omegaCalled = TRUE,
                         !.omegaSolventPsat = DefaultOmegaOptions.solvent.Psat,
                         !.w = waterBornOmegaDEW(arg).value,
                         !.path = waterBornOmegaDEW(arg).path,
                         !.wP = waterBornDOmegaDP_DEW(arg).value]
             ELSE [ev EXCEPT !.pc = "props"]
    /\ UNCHANGED <<den, gib, born, el, psat, solv, ws, tbl, lk, cmp, fx, tz>>

\*     wT = -w * Y / Z;  wTT = -w * X / Z;  }
SpeciesOmegaT ==
    /\ ev.pc = "omegaT"
    /\ ev' = [ev EXCEPT
                !.pc = "props",
                !.wT = bornQuotient(ev.w, 0, ev.we.bornZ),
                !.wTT = bornQuotient(ev.w, 0, ev.we.bornZ),
                !.divisions = 2,
                !.zeroDivisions = IF ev.we.bornZ = 0 THEN 2 ELSE 0]
    /\ UNCHANGED <<den, gib, born, el, psat, solv, ws, tbl, lk, cmp, fx, tz>>

\* V0, VT0, VP0, G0, H0, Cp0 are assigned and the function returns.
SpeciesProps ==
    /\ ev.pc = "props"
    /\ ev' = [ev EXCEPT !.pc = "done"]
    /\ UNCHANGED <<den, gib, born, el, psat, solv, ws, tbl, lk, cmp, fx, tz>>

NextSpecies ==
    \/ SpeciesConfigure
    \/ SpeciesWaterState
    \/ SpeciesOmega
    \/ SpeciesOmegaT
    \/ SpeciesProps

SpecSpecies == InitSpecies /\ [][NextSpecies]_vars

C27_AsStated ==
    (ev.pc \in {"omegaT", "props", "done"} /\ ev.omegaCalled)
        => /\ ev.overrides.density = ev.in.waterOpts.usePsatPolynomials
           /\ ev.overrides.dielectric = ev.in.waterOpts.usePsatPolynomials
           /\ ev.overrides.gibbs = ev.in.waterOpts.usePsatPolynomials
           /\ ev.overrides.solvent = ev.in.waterOpts.usePsatPolynomials
           /\ ev.omegaSolventPsat = ev.in.waterOpts.usePsatPolynomials

\* An evaluation with saturation polynomials enabled is complete: density,
\* dielectric and solvent g had the override on, the Gibbs model and the
\* solvent options of the Born omega calls had it off.
C27_Witness ==
    /\ ev.pc = "done"
    /\ ev.omegaCalled
    /\ ev.in.waterOpts.usePsatPolynomials
    /\ ev.overrides.density
    /\ ev.overrides.dielectric
    /\ ev.overrides.solvent
    /\ ~ev.overrides.gibbs
    /\ ~ev.omegaSolventPsat

(***************************************************************************)
(* The fixed-step methods at any configured integrationSteps: the step     *)
(* count the method derives, the width it divides by that count, and its   *)
(* loops.  A floating-point division by a zero count gives an infinite     *)
(* width ("inf").                                                          *)
(***************************************************************************)

\* opt.integrationSteps values drawn: negative, zero and positive, odd and
\* even, below and above 16.
StepCounts == {-17, -2, -1, 0, 1, 2, 4, 16, 17, MaxStepsBound}

FixedStepMethods == {"Trapezoidal", "Simpson", "GaussLegendre16"}

\* The calls drawn: 1002 bar and 5000 bar, default options but for the
\* method and integrationSteps.
FixedStepCalls ==
    { [DefaultGibbsOptions(T, P, CompareThermo, m) EXCEPT !.integrationSteps = n] :
        T \in GibbsTemperatures, P \in {100200000, PressureHigh},
        m \in FixedStepMethods, n \in StepCounts }

\* (P_Pa - P_start_Pa) / count in floating point.
stepWidth(opt) ==
    IF loopCount(opt) = 0 THEN "inf" ELSE loopWidth(opt)

\* The loops and the return value with the width computed: with a zero
\* count no loop pass runs, the trapezoidal sum stays 0.0 and simpsonRule
\* returns (h / 3.0) * sum with h infinite.
fixedStepLoops(opt) ==
    IF loopCount(opt) # 0 THEN fixedStepIntegral(opt.T_cK, opt.P_Pa, opt).G_int
    ELSE IF opt.integrationMethod = "Trapezoidal" THEN 0
    ELSE "inf"

InitFixedStep ==
    /\ fx \in [in : FixedStepCalls, pc : {"count"}, count : {0}, width : {0},
               zeroDivision : {FALSE}, G_int : {0}]
    /\ den = Idle
    /\ gib = Idle
    /\ born = Idle
    /\ el = Idle
    /\ psat = Idle
    /\ solv = Idle
    /\ ws = Idle
    /\ tbl = Idle
    /\ lk = Idle
    /\ cmp = Idle
    /\ ev = Idle
    /\ tz = Idle

\* nsteps = opt.integrationSteps; if (nsteps % 2 != 0) nsteps++;
\* nsegments = std::max(1, opt.integrationSteps / 16)
FixedStepCount ==
    /\ fx.pc = "count"
    /\ fx' = [fx EXCEPT !.pc = "width", !.count = loopCount(fx.in)]
    /\ UNCHANGED <<den, gib, born, el, psat, solv, ws, tbl, lk, cmp, ev, tz>>

\* dP, h or segment_width = (P_end - P_start) / count
FixedStepWidth ==
    /\ fx.pc = "width"
    /\ fx' = [fx EXCEPT !.pc = "loops", !.width = stepWidth(fx.in),
                        !.zeroDivision = (fx.count = 0)]
    /\ UNCHANGED <<den, gib, born, el, psat, solv, ws, tbl, lk, cmp, ev, tz>>

\* The loops of the method and its result.
FixedStepLoops ==
    /\ fx.pc = "loops"
    /\ fx' = [fx EXCEPT !.pc = "done", !.G_int = fixedStepLoops(fx.in)]
    /\ UNCHANGED <<den, gib, born, el, psat, solv, ws, tbl, lk, cmp, ev, tz>>

NextFixedStep ==
    \/ FixedStepCount
    \/ FixedStepWidth
    \/ FixedStepLoops

SpecFixedStep == InitFixedStep /\ [][NextFixedStep]_vars

\* C25: for every configured step count, including zero and negative
\* values, the fixed-step methods (trapezoidal, Simpson, 16-point
\* Gauss-Legendre) perform no division by zero when computing the step or
\* segment width.
C25_AsStated ==
    fx.pc \in {"loops", "done"} => ~fx.zeroDivision

\* simpsonRule with integrationSteps = -1 has returned: the count was made
\* even, to 0, the width was divided by it, and the result is infinite.
C25_Witness ==
    /\ fx.pc = "done"
    /\ fx.in.integrationMethod = "Simpson"
    /\ fx.in.integrationSteps = -1
    /\ fx.count = 0
    /\ fx.zeroDivision
    /\ fx.width = "inf"
    /\ fx.G_int = "inf"

(***************************************************************************)
(* The trapezoidal loop over nodes whose densities are given: the density  *)
(* wt.D that waterThermoPropsModel returns at each node is an input here,  *)
(* so that the branch for wt.D <= 0.0 is exercised.  Each accumulated term *)
(* is recorded with the index of the node whose volume Vm_prev held.       *)
(***************************************************************************)

\* nsteps of the loop drawn.
TrapezoidSteps == 3

\* Densities at a node [0.01 kg/m3]: negative, zero, 700 and 958.05 kg/m3.
NodeDensities == {-100, 0, 70000, 95805}

\* dP of the loop drawn [Pa]: 100 bar.
TrapezoidWidth == 10000000

\* Vm = (wt.D > 0.0) ? (M / wt.D) : 0.0  [1e-9 m3/mol]
VmOf(D) == IF D > 0 THEN MolarMassScaled \div D ELSE 0

\* The loop body: if (wt.D <= 0.0) continue;  Vm = M / wt.D;
\* G_int_J += 0.5 * (Vm_prev + Vm) * dP;  Vm_prev = Vm;
trapezoidalBody(a, D, dP) ==
    IF D <= 0
    THEN [a EXCEPT !.i = a.i + 1]
    ELSE [a EXCEPT !.i = a.i + 1,
                   !.G_int = a.G_int + MulDiv(a.Vm_prev + VmOf(D), dP, 2000000),
                   !.Vm_prev = VmOf(D),
                   !.prevNode = a.i,
                   !.terms = Append(a.terms,
                                    [i |-> a.i, left |-> a.prevNode,
                                     Vm_left |-> a.Vm_prev, Vm_right |-> VmOf(D)])]

InitTrapezoid ==
    /\ tz \in [D : [0..TrapezoidSteps -> NodeDensities], pc : {"start"},
               a : {[i |-> 1, Vm_prev |-> 0, prevNode |-> 0, G_int |-> 0,
                     terms |-> << >>]}]
    /\ den = Idle
    /\ gib = Idle
    /\ born = Idle
    /\ el = Idle
    /\ psat = Idle
    /\ solv = Idle
    /\ ws = Idle
    /\ tbl = Idle
    /\ lk = Idle
    /\ cmp = Idle
    /\ ev = Idle
    /\ fx = Idle

\* wt_prev = waterThermoPropsModel(T_K, P_start_Pa, thermoWithTol);
\* Vm_prev = (wt_prev.D > 0.0) ? (M / wt_prev.D) : real(0.0);
TrapezoidStart ==
    /\ tz.pc = "start"
    /\ tz' = [tz EXCEPT !.pc = "loop", !.a.Vm_prev = VmOf(tz.D[0])]
    /\ UNCHANGED <<den, gib, born, el, psat, solv, ws, tbl, lk, cmp, ev, fx>>

\* One pass of for (int i = 1; i <= nsteps; ++i).
TrapezoidPass ==
    /\ tz.pc = "loop"
    /\ tz.a.i <= TrapezoidSteps
    /\ tz' = [tz EXCEPT !.a = trapezoidalBody(tz.a, tz.D[tz.a.i], TrapezoidWidth)]
    /\ UNCHANGED <<den, gib, born, el, psat, solv, ws, tbl, lk, cmp, ev, fx>>

\* The loop ends: break.
TrapezoidBreak ==
    /\ tz.pc = "loop"
    /\ tz.a.i > TrapezoidSteps
    /\ tz' = [tz EXCEPT !.pc = "done"]
    /\ UNCHANGED <<den, gib, born, el, psat, solv, ws, tbl, lk, cmp, ev, fx>>

NextTrapezoid ==
    \/ TrapezoidStart
    \/ TrapezoidPass
    \/ TrapezoidBreak

SpecTrapezoid == InitTrapezoid /\ [][NextTrapezoid]_vars

per_bar_to_per_Pa(dgdP_bar) == DivTrunc(dgdP_bar, 100000)

\* C29: the pressure derivative of g is returned in the same unit (per
\* pascal) on the along-saturation branch as on the general branch: the
\* per-bar polynomial is converted by 1e-5.
C29_AsStated ==
    (solv.pc = "done" /\ solv.in.opt.Psat)
        => solv.dgdP = per_bar_to_per_Pa(waterPsatDgdPDEW(solv.in.T_cK))

\* An along-saturation call at 373.15 K has returned dgdP: the value is the
\* per-bar polynomial itself, 1.12e-10, 100000 times its value per pascal.
C29_Witness ==
    /\ solv.pc = "done"
    /\ solv.in.opt.Psat
    /\ solv.in.T_cK = 37315
    /\ solv.dgdP = waterPsatDgdPDEW(solv.in.T_cK)
    /\ solv.dgdP = 112032531
    /\ per_bar_to_per_Pa(waterPsatDgdPDEW(solv.in.T_cK)) = 1120

\* C30: if the one-time load throws part-way, no caller ever receives a
\* reference to the partially populated table, and a later access
\* re-attempts the load: on a file the loader cannot complete on, the flag
\* is never set, no call returns, and every call that has ended has executed
\* the loader and left with its exception.
C30_FailedLoad ==
    /\ \A t \in Threads :
         tbl.thr[t].returned =>
             (tbl.completions = 1 /\ tbl.thr[t].got = LoadedTable(tbl.file))
    /\ ~Loads(tbl.file) =>
         /\ tbl.flag # "done"
         /\ tbl.completions = 0
         /\ \A t \in Threads :
              /\ ~tbl.thr[t].returned
              /\ tbl.thr[t].pc # "return"
              /\ (tbl.thr[t].pc = "out" /\ tbl.thr[t].calls < MaxCallsPerThread)
                    => tbl.thr[t].threw

\* The file has a complete entry followed by one that does not convert:
\* the static table holds the first entry, every thread has made all its
\* calls, each call ran the loader and threw, none returned, and the flag
\* is still unset.
C30_Witness ==
    /\ AllCallsMade
    /\ tbl.file.entries = <<"ok", "bad">>
    /\ tbl.table = {1}
    /\ tbl.flag = "idle"
    /\ tbl.completions = 0
    /\ \A t \in Threads : tbl.thr[t].threw /\ ~tbl.thr[t].returned
====
